---- MODULE Spec2Model ----
(***************************************************************************)
(* Chronicle-Ops core: the simulation engine (tick, apply_action,         *)
(* checkpoints), the time-lock (encrypt_future_events and the lookups of  *)
(* events and signals), the audit ledger (append, verify_chain,           *)
(* get_entries, export_bundle, sequential and from parallel threads), the  *)
(* policy engine (evaluate_action, check_invariants), the agent            *)
(* orchestrator (run_decision_cycle, approve_action), the timeline         *)
(* validation of the event loader and simulate_forward of the              *)
(* counterfactual engine.                                                  *)
(*                                                                         *)
(* Conventions.  Dates are whole days counted from the timeline's         *)
(* start_date.  Python dicts are functions with a string domain, {} is    *)
(* <<>>.  Floats are integers: amounts are chosen so that the products    *)
(* the code forms (costs * tick_days / 30, costs * (1 - r)) are whole     *)
(* numbers; multipliers and rates are carried in hundredths.              *)
(***************************************************************************)
EXTENDS Integers, Sequences, FiniteSets, TLC

VARIABLES engine, twin, lastOp, okIds, ckptAt, since, open, replay, altered,
          restores, ledger, pristine, lastAppend, query, threads, lock, policy, orch, call,
          outcome

vars == <<engine, twin, lastOp, okIds, ckptAt, since, open, replay, altered,
          restores, ledger, pristine, lastAppend, query, threads, lock, policy, orch, call,
          outcome>>

engineVars == <<engine, twin, lastOp, okIds, ckptAt, since, open, replay, altered,
                restores>>
ledgerVars == <<ledger, pristine, lastAppend, query, threads>>
timelockVars == <<lock>>
gateVars == <<policy, orch, call>>
counterfactualVars == <<outcome>>

(***************************************************************************)
(* Bounds of the model.                                                    *)
(***************************************************************************)
\* the timeline's end_date, in days after start_date
EndDate == 13
\* apply_action commits at most this many transitions into one log
MaxTransitions == 2
\* restore_checkpoint is called at most this many times in one run
MaxRestores == 1
\* the longest run of tick calls that is followed after a checkpoint
MaxTrace == 3
\* a ledger holds at most this many entries
MaxEntries == 3
\* each thread of a concurrent run calls append this many times
AppendsPerThread == 2
\* an event list handed to the time-lock holds at most this many events
MaxEvents == 2
\* the agents of one orchestrator propose at most this many actions in all
MaxIds == 2
\* the largest number of ticks simulate_forward is asked for
MaxTicks == 1

(***************************************************************************)
(* Python helpers.                                                         *)
(***************************************************************************)
None == "None"

\* dict.get(key, default)
Get(d, k, default) == IF k \in DOMAIN d THEN d[k] ELSE default

\* truth value of an optional string: None and "" are false
Truthy(x) == x # None /\ x # ""

\* d.copy() followed by d[k] = v for every item of u
Overlay(d, u) ==
    [k \in (DOMAIN d) \cup (DOMAIN u) |-> IF k \in DOMAIN u THEN u[k] ELSE d[k]]

RECURSIVE SumOver(_, _)
SumOver(d, keys) ==
    IF keys = {} THEN 0
    ELSE LET k == CHOOSE x \in keys : TRUE
         IN  d[k] + SumOver(d, keys \ {k})

\* sum(d.values())
SumValues(d) == SumOver(d, DOMAIN d)

Max(a, b) == IF a >= b THEN a ELSE b
Min(a, b) == IF a <= b THEN a ELSE b
Abs(a) == IF a >= 0 THEN a ELSE -a

(***************************************************************************)
(* state.py: CompanyState and StateTransition.                             *)
(***************************************************************************)
\* CompanyState.clone(**updates): version + 1, then the updates on top
clone(state, updates) ==
    [f \in DOMAIN state |->
        IF f \in DOMAIN updates THEN updates[f]
        ELSE IF f = "version" THEN state.version + 1
        ELSE state[f]]

\* CompanyState.to_dict(): every field, the timestamp in ISO form
to_dict(state) ==
    [f \in DOMAIN state |->
        IF f = "timestamp" THEN <<"iso", state.timestamp>> ELSE state[f]]

\* CompanyState.hash(): SHA-256 of the canonical JSON, taken collision free
hash(state) == <<"sha256", to_dict(state)>>

StateTransition(before, after, action, agent_role, reason, wall) ==
    [before |-> before, after |-> after, action |-> action,
     agent_role |-> agent_role, reason |-> reason, timestamp |-> wall]

\* a validity check that forgets the cash rule
is_valid_without_cash(t) ==
    /\ ~(t.after.headcount < 0)
    /\ ~(t.after.version # t.before.version + 1)
    /\ ~(t.after.timestamp < t.before.timestamp)

\* StateTransition.is_valid()
is_valid(t) ==
    /\ ~(t.after.cash < 0)
    /\ ~(t.after.headcount < 0)
    /\ ~(t.after.version # t.before.version + 1)
    /\ ~(t.after.timestamp < t.before.timestamp)

(***************************************************************************)
(* timelock.py: TimeLock.                                                  *)
(***************************************************************************)
\* Fernet(key).encrypt(json.dumps(event)): readable with the key only
Encrypt(key, event) == [key |-> key, plain |-> event]

RECURSIVE encrypt_future_events(_, _, _)
encrypt_future_events(key, events, current_time) ==
    IF events = <<>> THEN <<>>
    ELSE LET event == Head(events)
             out == IF event.timestamp > current_time
                    THEN [timestamp |-> event.timestamp, encrypted |-> TRUE,
                          data |-> Encrypt(key, event)]
                    ELSE Overlay(event, [encrypted |-> FALSE])
         IN  <<out>> \o encrypt_future_events(key, Tail(events), current_time)

\* a filter that skips the encrypted entries and never looks at the time
get_accessible_events_any_time(events, current_time) ==
    SelectSeq(events, LAMBDA event : ~Get(event, "encrypted", FALSE))

\* TimeLock.get_accessible_events
get_accessible_events(events, current_time) ==
    SelectSeq(events, LAMBDA event :
        /\ ~Get(event, "encrypted", FALSE)
        /\ event.timestamp <= current_time)

\* TimeLock.get_accessible_signals
get_accessible_signals(event, current_time) ==
    SelectSeq(Get(event, "signals", <<>>), LAMBDA signal :
        signal.release_time <= current_time)

\* InformationContext.__init__
InformationContext(current_time, timelock, events) ==
    [current_time |-> current_time, timelock |-> timelock, all_events |-> events]

\* InformationContext.get_observable_events
get_observable_events(ctx) == get_accessible_events(ctx.all_events, ctx.current_time)

\* InformationContext.get_event_signals
get_event_signals(ctx, event) == get_accessible_signals(event, ctx.current_time)

(***************************************************************************)
(* timelock.py: verify_no_future_access.  The structure it walks is a      *)
(* value of any Python type, so each value carries its type: a dict        *)
(* (val: a function of its keys), a list (val: a sequence), a str in ISO   *)
(* format (kind "iso", val: the day it names), any other str (kind "str"), *)
(* a datetime (val: its day) or a number.                                  *)
(***************************************************************************)
Dict(d) == [kind |-> "dict", val |-> d]
List(l) == [kind |-> "list", val |-> l]
IsoStr(day) == [kind |-> "iso", val |-> day]
Str(text) == [kind |-> "str", val |-> text]
Datetime(day) == [kind |-> "datetime", val |-> day]
Num(n) == [kind |-> "num", val |-> n]

\* the keys check_timestamps looks at
TimeKeys == {"timestamp", "time", "date"}

\* a check that compares the time fields of the top-level dict only
RECURSIVE check_timestamps_top_level(_, _)
check_timestamps_top_level(obj, current_time) ==
    /\ obj.kind = "dict"
    /\ \E key \in DOMAIN obj.val :
          LET value == obj.val[key]
          IN  /\ key \in TimeKeys
              /\ value.kind \in {"iso", "str", "datetime"}
              /\ (value.kind = "str" \/ value.val > current_time)

\* check_timestamps raises ValueError: its own for a later time, or
\* datetime.fromisoformat's for a str that is not in ISO format
RECURSIVE check_timestamps(_, _)
check_timestamps(obj, current_time) ==
    IF obj.kind = "dict"
    THEN \E key \in DOMAIN obj.val :
            LET value == obj.val[key]
            IN  \/ /\ key \in TimeKeys
                   /\ value.kind \in {"iso", "str", "datetime"}
                   /\ (value.kind = "str" \/ value.val > current_time)
                \/ check_timestamps(value, current_time)
    ELSE IF obj.kind = "list"
    THEN \E i \in 1..Len(obj.val) : check_timestamps(obj.val[i], current_time)
    ELSE FALSE

\* verify_no_future_access
verify_no_future_access(agent_input, current_time) ==
    ~check_timestamps(agent_input, current_time)

(***************************************************************************)
(* engine.py: SimulationEngine.                                            *)
(***************************************************************************)
TickDaysDefault == 7
DefaultCostPerHead == 10000
DefaultReduction == 10
DefaultDuration == 7

\* SimulationEngine._initialize_state
_initialize_state(blueprint, current_time) ==
    LET ic == blueprint.initial_conditions
    IN  [timestamp |-> current_time,
         version |-> 0,
         cash |-> ic.cash,
         revenue_monthly |-> 0,
         costs_monthly |-> ic.monthly_burn,
         margin |-> Get(Get(ic, "margins", <<>>), "gross", 0),
         headcount |-> ic.headcount,
         capacity |-> Get(ic, "capacity", <<>>),
         utilization |-> <<>>,
         demand |-> <<>>,
         pricing |-> Get(ic, "pricing", <<>>),
         cac |-> <<>>,
         churn_rate |-> 0,
         inventory |-> <<>>,
         backlog |-> <<>>,
         lead_times |-> <<>>,
         service_level |-> 100,
         risk_flags |-> <<>>,
         compliance_score |-> 100,
         metadata |-> [growth_rate |-> 0]]

\* SimulationEngine.__init__; key is the key TimeLock() generates
SimulationEngine(blueprint, timeline, seed, tick_days, key) ==
    LET start == timeline.start_date
        s0 == _initialize_state(blueprint, start)
    IN  [blueprint |-> blueprint,
         timeline |-> timeline,
         seed |-> seed,
         tick_days |-> tick_days,
         current_tick |-> 0,
         rng |-> <<"Random", seed>>,
         timelock |-> [encryption_key |-> key],
         encrypted_events |-> encrypt_future_events(key, timeline.events, start),
         current_time |-> start,
         end_time |-> timeline.end_date,
         state |-> s0,
         state_history |-> <<s0>>,
         transitions |-> <<>>,
         checkpoints |-> <<>>,
         active_events |-> <<>>,
         event_history |-> <<>>]

\* event_history[-5:]
LastFive(history) ==
    SubSeq(history, Max(1, Len(history) - 4), Len(history))

\* SimulationEngine.get_information_context
get_information_context(e) ==
    Overlay(InformationContext(e.current_time, e.timelock, e.encrypted_events),
            [active_events |-> e.active_events,
             recent_events |-> IF e.event_history # <<>>
                               THEN LastFive(e.event_history) ELSE <<>>,
             current_tick |-> e.current_tick])

\* updates in which the cost of hiring follows the clamped headcount
ActionUpdates_cost_follows_headcount(state, action, current_time) ==
    LET action_type == action.type
        params == Get(action, "params", <<>>)
        base == [timestamp |-> current_time]
    IN  IF action_type = "adjust_hiring" THEN
            Overlay(base,
                [headcount |-> Max(0, state.headcount + params.delta),
                 costs_monthly |-> state.costs_monthly
                     + (Max(0, state.headcount + params.delta) - state.headcount)
                         * Get(params, "cost_per_head", DefaultCostPerHead)])
        ELSE IF action_type = "change_pricing" THEN
            Overlay(base,
                [pricing |-> Overlay(state.pricing, Get(params, "pricing", <<>>))])
        ELSE IF action_type = "allocate_budget" THEN
            LET total == SumValues(Get(params, "allocation", <<>>))
            IN  IF total <= state.cash
                THEN Overlay(base, [cash |-> state.cash - total])
                ELSE base
        ELSE IF action_type = "modify_inventory_policy" THEN
            Overlay(base,
                [inventory |-> Overlay(state.inventory, Get(params, "inventory", <<>>))])
        ELSE IF action_type = "trigger_cost_cutting" THEN
            Overlay(base,
                [costs_monthly |->
                    (state.costs_monthly
                        * (100 - Get(params, "reduction_percent", DefaultReduction))) \div 100])
        ELSE base

\* the updates _apply_action_to_state collects for one action
ActionUpdates(state, action, current_time) ==
    LET action_type == action.type
        params == Get(action, "params", <<>>)
        base == [timestamp |-> current_time]
    IN  IF action_type = "adjust_hiring" THEN
            Overlay(base,
                [headcount |-> Max(0, state.headcount + params.delta),
                 costs_monthly |-> state.costs_monthly
                     + params.delta * Get(params, "cost_per_head", DefaultCostPerHead)])
        ELSE IF action_type = "change_pricing" THEN
            Overlay(base,
                [pricing |-> Overlay(state.pricing, Get(params, "pricing", <<>>))])
        ELSE IF action_type = "allocate_budget" THEN
            LET total == SumValues(Get(params, "allocation", <<>>))
            IN  IF total <= state.cash
                THEN Overlay(base, [cash |-> state.cash - total])
                ELSE base
        ELSE IF action_type = "modify_inventory_policy" THEN
            Overlay(base,
                [inventory |-> Overlay(state.inventory, Get(params, "inventory", <<>>))])
        ELSE IF action_type = "trigger_cost_cutting" THEN
            Overlay(base,
                [costs_monthly |->
                    (state.costs_monthly
                        * (100 - Get(params, "reduction_percent", DefaultReduction))) \div 100])
        ELSE base

\* SimulationEngine._apply_action_to_state
_apply_action_to_state(e, state, action) ==
    clone(state, ActionUpdates(state, action, e.current_time))

\* a lookup that never finds the id
RecordedNever(e, action_id) == {}

\* the transitions of the log that carry the id
Recorded(e, action_id) ==
    {i \in 1..Len(e.transitions) : Get(e.transitions[i].action, "id", None) = action_id}

\* apply_action that records the candidate state before it validates
apply_action_commit_first(e, action, agent_role, wall) ==
    LET action_id == Get(action, "id", None)
        new_state == _apply_action_to_state(e, e.state, action)
        transition == StateTransition(e.state, new_state, action, agent_role,
                                      Get(action, "reason", ""), wall)
        committed == [e EXCEPT !.state = new_state,
                               !.state_history = Append(@, new_state),
                               !.transitions = Append(@, transition)]
    IN  IF Truthy(action_id) /\ Recorded(e, action_id) # {}
        THEN [eng |-> e, ret |-> TRUE]
        ELSE IF ~is_valid(transition)
        THEN [eng |-> [e EXCEPT !.state_history = Append(@, new_state)], ret |-> FALSE]
        ELSE [eng |-> committed, ret |-> TRUE]

\* apply_action that stamps the new state with the wall clock
apply_action_wall_stamp(e, action, agent_role, wall) ==
    LET action_id == Get(action, "id", None)
        new_state == clone(e.state, ActionUpdates(e.state, action, wall))
        transition == StateTransition(e.state, new_state, action, agent_role,
                                      Get(action, "reason", ""), wall)
        committed == [e EXCEPT !.state = new_state,
                               !.state_history = Append(@, new_state),
                               !.transitions = Append(@, transition)]
    IN  IF Truthy(action_id) /\ Recorded(e, action_id) # {}
        THEN [eng |-> e, ret |-> TRUE]
        ELSE IF ~is_valid(transition)
        THEN [eng |-> e, ret |-> FALSE]
        ELSE [eng |-> committed, ret |-> TRUE]

\* SimulationEngine.apply_action; wall is datetime.utcnow() of the new transition
apply_action(e, action, agent_role, wall) ==
    LET action_id == Get(action, "id", None)
        new_state == _apply_action_to_state(e, e.state, action)
        transition == StateTransition(e.state, new_state, action, agent_role,
                                      Get(action, "reason", ""), wall)
        committed == [e EXCEPT !.state = new_state,
                               !.state_history = Append(@, new_state),
                               !.transitions = Append(@, transition)]
    IN  IF Truthy(action_id) /\ Recorded(e, action_id) # {}
        THEN [eng |-> e, ret |-> TRUE]
        ELSE IF ~is_valid(transition)
        THEN [eng |-> e, ret |-> FALSE]
        ELSE [eng |-> committed, ret |-> TRUE]

\* SimulationEngine._apply_event
_apply_event(e, event) ==
    LET impacts == Get(event, "parameter_impacts", <<>>)
        u1 == IF "demand_multiplier" \in DOMAIN impacts
              THEN [demand |-> [k \in DOMAIN e.state.demand |->
                                   (e.state.demand[k] * impacts.demand_multiplier) \div 100]]
              ELSE <<>>
        u2 == IF "cost_multiplier" \in DOMAIN impacts
              THEN Overlay(u1, [costs_monthly |->
                                   (e.state.costs_monthly * impacts.cost_multiplier) \div 100])
              ELSE u1
        u3 == IF "churn_delta" \in DOMAIN impacts
              THEN Overlay(u2, [churn_rate |->
                                   Max(0, Min(100, e.state.churn_rate + impacts.churn_delta))])
              ELSE u2
        s1 == clone(e.state, Overlay([timestamp |-> e.current_time], u3))
    IN  IF DOMAIN u3 # {}
        THEN [e EXCEPT !.state = s1, !.state_history = Append(@, s1)]
        ELSE e

\* SimulationEngine._update_state_for_tick
_update_state_for_tick(e) ==
    LET revenue == (e.state.revenue_monthly * e.tick_days) \div 30
        costs == (e.state.costs_monthly * e.tick_days) \div 30
        net_cash_flow == revenue - costs
        new_cash == e.state.cash + net_cash_flow
        s1 == clone(e.state, [timestamp |-> e.current_time, cash |-> new_cash])
    IN  [e EXCEPT !.state = s1, !.state_history = Append(@, s1)]

\* the "Add new events" loop of tick over the list it read from the context
RECURSIVE AddNewEvents(_, _)
AddNewEvents(e, events) ==
    IF events = <<>> THEN e
    ELSE LET event == Head(events)
             e1 == IF Abs(event.timestamp - e.current_time) < e.tick_days
                   THEN _apply_event(
                            [e EXCEPT !.active_events = Append(@, event),
                                      !.event_history = Append(@,
                                          Overlay(event, [activated_at |-> e.current_time,
                                                          tick |-> e.current_tick]))],
                            event)
                   ELSE e
         IN  AddNewEvents(e1, Tail(events))

\* a tick that counts the call it refuses
tick_counts_refused(e) ==
    IF e.current_time >= e.end_time
    THEN [eng |-> [e EXCEPT !.current_tick = @ + 1], ret |-> FALSE]
    ELSE LET e1 == [e EXCEPT !.current_tick = @ + 1,
                             !.current_time = @ + e.tick_days]
             events == e1.active_events
             e2 == [e1 EXCEPT !.active_events =
                       SelectSeq(@, LAMBDA ev :
                           ev.timestamp + Get(ev, "duration_days", DefaultDuration)
                               > e1.current_time)]
             e3 == AddNewEvents(e2, events)
         IN  [eng |-> _update_state_for_tick(e3), ret |-> TRUE]

\* a tick that reports success at the end of the span
tick_never_refuses(e) ==
    IF e.current_time >= e.end_time THEN [eng |-> e, ret |-> TRUE]
    ELSE LET e1 == [e EXCEPT !.current_tick = @ + 1,
                             !.current_time = @ + e.tick_days]
             events == e1.active_events
             e2 == [e1 EXCEPT !.active_events =
                       SelectSeq(@, LAMBDA ev :
                           ev.timestamp + Get(ev, "duration_days", DefaultDuration)
                               > e1.current_time)]
             e3 == AddNewEvents(e2, events)
         IN  [eng |-> _update_state_for_tick(e3), ret |-> TRUE]

\* SimulationEngine.tick.  The context's active_events is the engine's own
\* list, read before the expired events are dropped.
tick(e) ==
    IF e.current_time >= e.end_time THEN [eng |-> e, ret |-> FALSE]
    ELSE LET e1 == [e EXCEPT !.current_tick = @ + 1,
                             !.current_time = @ + e.tick_days]
             events == e1.active_events
             e2 == [e1 EXCEPT !.active_events =
                       SelectSeq(@, LAMBDA ev :
                           ev.timestamp + Get(ev, "duration_days", DefaultDuration)
                               > e1.current_time)]
             e3 == AddNewEvents(e2, events)
         IN  [eng |-> _update_state_for_tick(e3), ret |-> TRUE]

\* SimulationEngine.create_checkpoint
create_checkpoint(e, name) ==
    [e EXCEPT !.checkpoints = Overlay(@, [n \in {name} |-> e.state])]

\* a restore that leaves the clock where it was
restore_checkpoint_keep_time(e, name) ==
    IF name \notin DOMAIN e.checkpoints THEN [eng |-> e, ret |-> FALSE]
    ELSE LET checkpoint_state == e.checkpoints[name]
         IN  [eng |-> [e EXCEPT
                  !.state = checkpoint_state,
                  !.state_history = SelectSeq(@, LAMBDA s :
                      s.timestamp <= checkpoint_state.timestamp),
                  !.transitions = SelectSeq(@, LAMBDA t :
                      t.before.timestamp <= checkpoint_state.timestamp)],
              ret |-> TRUE]

\* SimulationEngine.restore_checkpoint
restore_checkpoint(e, name) ==
    IF name \notin DOMAIN e.checkpoints THEN [eng |-> e, ret |-> FALSE]
    ELSE LET checkpoint_state == e.checkpoints[name]
         IN  [eng |-> [e EXCEPT
                  !.state = checkpoint_state,
                  !.current_time = checkpoint_state.timestamp,
                  !.state_history = SelectSeq(@, LAMBDA s :
                      s.timestamp <= checkpoint_state.timestamp),
                  !.transitions = SelectSeq(@, LAMBDA t :
                      t.before.timestamp <= checkpoint_state.timestamp)],
              ret |-> TRUE]

\* CompanyState.runway_months: the quotient is kept as its two terms
runway_months(state) ==
    IF state.costs_monthly <= 0 THEN <<"inf">>
    ELSE <<"div", state.cash, state.costs_monthly>>

\* CompanyState.growth_rate
growth_rate(state) == Get(state.metadata, "growth_rate", 0)

\* SimulationEngine.get_metrics
get_metrics(e) ==
    [current_time |-> <<"iso", e.current_time>>,
     cash |-> e.state.cash,
     runway_months |-> runway_months(e.state),
     revenue_monthly |-> e.state.revenue_monthly,
     costs_monthly |-> e.state.costs_monthly,
     margin |-> e.state.margin,
     headcount |-> e.state.headcount,
     growth_rate |-> growth_rate(e.state),
     service_level |-> e.state.service_level,
     compliance_score |-> e.state.compliance_score,
     state_version |-> e.state.version]

(***************************************************************************)
(* counterfactual.py: CounterfactualEngine.                                *)
(***************************************************************************)
\* the loop of simulate_forward: up to ticks calls of tick, left at the
\* first that returns False
RECURSIVE TickTimes(_, _)
TickTimes(e, ticks) ==
    IF ticks = 0 THEN e
    ELSE LET r == tick(e)
         IN  IF r.ret THEN TickTimes(r.eng, ticks - 1) ELSE r.eng

\* CounterfactualEngine.simulate_forward on the live engine e; the deep copy
\* takes the transition log with it
simulate_forward(e, action, checkpoint_state, ticks, wall) ==
    LET sim_copy == [e EXCEPT !.state = checkpoint_state]
        applied == apply_action(sim_copy, action, None, wall).eng
    IN  get_metrics(TickTimes(applied, ticks))

(***************************************************************************)
(* policy/engine.py: PolicyEngine.  Ratios the code holds as floats are    *)
(* carried in hundredths: max_percent_change, risk_score, risk_appetite,   *)
(* service_level and the SLA minimum; the comparison                       *)
(* abs(new - old) / old > max_change is made on whole numbers as           *)
(* abs(new - old) * 100 > max_change * old.                                *)
(***************************************************************************)
DefaultMaxChange == 20
DefaultHiringVelocityMax == 10
DefaultApprovalThreshold == 100000
DefaultRiskAppetite == 50
DefaultMinRunway == 3
DefaultSlaMin == 95

\* PolicyResult
PolicyResult(decision, reason, violated_rules) ==
    [decision |-> decision, reason |-> reason, violated_rules |-> violated_rules]

\* dict.items(): the keys of a dict, one after the other
RECURSIVE Keys(_)
Keys(d) ==
    IF DOMAIN d = {} THEN <<>>
    ELSE LET k == CHOOSE x \in DOMAIN d : TRUE
         IN  <<k>> \o Keys([x \in (DOMAIN d) \ {k} |-> d[x]])

\* the loop over params['pricing'] in evaluate_action
RECURSIVE PricingViolations(_, _, _, _)
PricingViolations(products, pricing, state, max_change) ==
    IF products = <<>> THEN <<>>
    ELSE LET product == Head(products)
             new_price == pricing[product]
             old_price == Get(Get(state, "pricing", <<>>), product, new_price)
             rest == PricingViolations(Tail(products), pricing, state, max_change)
         IN  IF old_price > 0 /\ Abs(new_price - old_price) * 100 > max_change * old_price
             THEN <<<<"pricing_change", product>>>> \o rest
             ELSE rest

\* the hard constraints of evaluate_action, in the order it checks them
Violated(policies, action, state) ==
    LET action_type == Get(action, "type", None)
        params == Get(action, "params", <<>>)
        total_spend == SumValues(Get(params, "allocation", <<>>))
        spend == IF /\ action_type = "allocate_budget"
                    /\ "spend_limit_monthly" \in DOMAIN policies
                    /\ total_spend > policies.spend_limit_monthly
                 THEN <<<<"spend_limit", total_spend, policies.spend_limit_monthly>>>>
                 ELSE <<>>
        max_change == Get(Get(policies, "max_percent_change", <<>>), "pricing", DefaultMaxChange)
        pricing == IF action_type = "change_pricing"
                   THEN PricingViolations(Keys(Get(params, "pricing", <<>>)),
                                          Get(params, "pricing", <<>>), state, max_change)
                   ELSE <<>>
        delta == Abs(Get(params, "delta", 0))
        max_velocity == Get(Get(policies, "constraints", <<>>), "hiring_velocity_max",
                            DefaultHiringVelocityMax)
        hiring == IF action_type = "adjust_hiring" /\ delta > max_velocity
                  THEN <<<<"hiring_velocity", delta, max_velocity>>>>
                  ELSE <<>>
    IN  spend \o pricing \o hiring

\* PolicyEngine.evaluate_action with the approval test made before the
\* constraint test
evaluate_action_escalate_first(policies, action, state, agent_role) ==
    LET violated == Violated(policies, action, state)
        estimated_impact == Get(action, "estimated_impact", 0)
        risk_score == Get(action, "risk_score", 0)
    IN  IF \/ estimated_impact > Get(policies, "approval_threshold", DefaultApprovalThreshold)
           \/ risk_score > Get(policies, "risk_appetite", DefaultRiskAppetite)
        THEN PolicyResult("escalate",
                 <<"Requires approval", estimated_impact, risk_score>>, <<>>)
        ELSE IF violated # <<>>
        THEN PolicyResult("deny", <<"Policy violations", violated>>, violated)
        ELSE PolicyResult("approve", <<"Action complies with all policies">>, <<>>)

\* PolicyEngine.evaluate_action
evaluate_action(policies, action, state, agent_role) ==
    LET violated == Violated(policies, action, state)
        estimated_impact == Get(action, "estimated_impact", 0)
        approval_threshold == Get(policies, "approval_threshold", DefaultApprovalThreshold)
        needs_approval == estimated_impact > approval_threshold
        risk_score == Get(action, "risk_score", 0)
        risk_appetite == Get(policies, "risk_appetite", DefaultRiskAppetite)
        too_risky == risk_score > risk_appetite
    IN  IF violated # <<>>
        THEN PolicyResult("deny", <<"Policy violations", violated>>, violated)
        ELSE IF needs_approval \/ too_risky
        THEN PolicyResult("escalate",
                 <<"Requires approval", estimated_impact, risk_score>>, <<>>)
        ELSE PolicyResult("approve", <<"Action complies with all policies">>, <<>>)
\* PolicyEngine.check_invariants; state is the dict it is handed
check_invariants(policies, state) ==
    LET cash == IF Get(state, "cash", 0) < 0 THEN <<<<"cash_negative">>>> ELSE <<>>
        min_runway == Get(policies, "min_runway_months", DefaultMinRunway)
        runway == Get(state, "runway_months", 0)
        low == IF runway < min_runway
               THEN <<<<"runway_too_low", runway, min_runway>>>> ELSE <<>>
        min_service_level ==
            Get(Get(Get(policies, "constraints", <<>>), "sla_targets", <<>>),
                "min", DefaultSlaMin)
        service_level == Get(state, "service_level", 100)
        sla == IF service_level < min_service_level
               THEN <<<<"service_level_below_sla", service_level, min_service_level>>>>
               ELSE <<>>
    IN  cash \o low \o sla
(***************************************************************************)
(* agents: BaseAgent, PopulationAgent and AgentOrchestrator.  An agent is  *)
(* its role and its permissions; what its LLM call proposes is an input.   *)
(* self.agents is a dict in insertion order: a sequence of agents with     *)
(* distinct roles.                                                         *)
(***************************************************************************)
\* BaseAgent.__init__
BaseAgent(role, permissions) == [role |-> role, permissions |-> permissions]

\* CEOAgent, CFOAgent, PopulationAgent
CEOAgent ==
    BaseAgent("ceo", {"modify_headcount", "modify_pricing", "allocate_budget",
                      "modify_expansion", "approve_all"})
CFOAgent ==
    BaseAgent("cfo", {"allocate_budget", "modify_pricing", "modify_costs",
                      "approve_financial"})
PopulationAgent ==
    BaseAgent("population", {"influence_demand", "affect_conversion",
                             "impact_reputation", "drive_virality"})

\* a permission check that lets every action type through
can_execute_any(agent, action_type) == TRUE

\* BaseAgent.can_execute
can_execute(agent, action_type) == action_type \in agent.permissions

\* str(uuid.uuid4()): the n-th identifier drawn, each one new
UuidPool == <<"u1", "u2", "u3", "u4", "u5", "u6", "u7", "u8">>
uuid4(n) == UuidPool[n]

\* BaseAgent.decide: the actions the LLM call returned, stamped with a new
\* id, the agent's role and the wall clock; issued counts the ids drawn so far
decide(agent, actions, issued) ==
    [k \in 1..Len(actions) |->
        Overlay(actions[k], [id |-> uuid4(issued + k), agent_role |-> agent.role,
                             timestamp |-> <<"utcnow", issued + k>>])]

\* role in self.agents
HasAgent(agents, role) == \E i \in 1..Len(agents) : agents[i].role = role

\* self.agents[role]
AgentOf(agents, role) == agents[CHOOSE i \in 1..Len(agents) : agents[i].role = role]

\* the roles run_decision_cycle starts a task for, in the order of self.agents
TaskRoles(agents) ==
    LET others == SelectSeq(agents, LAMBDA a : a.role # "population")
    IN  [i \in 1..Len(others) |-> others[i].role]

\* the decisions joined in the order in which the tasks finished
Flatten_as_finished(roles, decided) ==
    LET f == orch.finished
        c[i \in 0..Len(f)] == IF i = 0 THEN <<>> ELSE c[i - 1] \o decided[f[i]]
    IN  c[Len(f)]

\* the flattening of agent_decisions, the results of the tasks in task order
RECURSIVE Flatten(_, _)
Flatten(roles, decided) ==
    IF roles = <<>> THEN <<>>
    ELSE decided[Head(roles)] \o Flatten(Tail(roles), decided)

\* AgentOrchestrator.__init__
AgentOrchestrator(agents, policies) ==
    [agents |-> agents, policies |-> policies, pending_approvals |-> <<>>,
     pc |-> "idle", all_actions |-> <<>>, finished |-> <<>>, decided |-> <<>>,
     next |-> 1, results |-> <<>>, issued |-> 0, failed |-> {}]

\* AgentOrchestrator._evaluate_and_execute; wall is datetime.utcnow().
\* policy is the PolicyResult, with decision "none" when the policy engine is
\* not asked
_evaluate_and_execute(o, e, action, wall) ==
    LET agent_role == Get(action, "agent_role", None)
        agent == AgentOf(o.agents, agent_role)
        NotAsked == PolicyResult("none", <<>>, <<>>)
        policy_result == evaluate_action(o.policies, action, to_dict(e.state), agent_role)
        r == apply_action(e, action, agent_role, wall)
    IN  IF ~HasAgent(o.agents, agent_role) \/ ~can_execute(agent, action.type)
        THEN [orch |-> o, eng |-> e, policy |-> NotAsked,
              result |-> [action |-> action, status |-> "denied",
                          reason |-> <<"Insufficient permissions">>]]
        ELSE IF policy_result.decision = "deny"
        THEN [orch |-> o, eng |-> e, policy |-> policy_result,
              result |-> [action |-> action, status |-> "denied",
                          reason |-> policy_result.reason,
                          violated_rules |-> policy_result.violated_rules]]
        ELSE IF policy_result.decision = "escalate"
        THEN [orch |-> [o EXCEPT !.pending_approvals =
                           Append(@, [action |-> action,
                                      reason |-> policy_result.reason,
                                      timestamp |-> <<"utcnow", wall>>])],
              eng |-> e, policy |-> policy_result,
              result |-> [action |-> action, status |-> "pending_approval",
                          reason |-> policy_result.reason]]
        ELSE [orch |-> o, eng |-> r.eng, policy |-> policy_result,
              result |-> [action |-> action,
                          status |-> IF r.ret THEN "executed" ELSE "failed",
                          reason |-> IF r.ret THEN <<"Action applied successfully">>
                                     ELSE <<"Action failed validation">>]]

\* an approval that takes the entry off the queue whether or not the action
\* could be applied
RECURSIVE ApproveFrom_always_pops(_, _, _, _, _)
ApproveFrom_always_pops(o, e, action_id, wall, i) ==
    IF i > Len(o.pending_approvals) THEN [orch |-> o, eng |-> e, ret |-> FALSE]
    ELSE LET pending == o.pending_approvals[i]
             action == pending.action
             r == apply_action(e, action, action.agent_role, wall)
         IN  IF Get(action, "id", None) = action_id
             THEN [orch |-> [o EXCEPT !.pending_approvals =
                                SubSeq(@, 1, i - 1) \o SubSeq(@, i + 1, Len(@))],
                   eng |-> r.eng, ret |-> r.ret]
             ELSE ApproveFrom_always_pops(o, e, action_id, wall, i + 1)

\* the loop of approve_action from entry i on
RECURSIVE ApproveFrom(_, _, _, _, _)
ApproveFrom(o, e, action_id, wall, i) ==
    IF i > Len(o.pending_approvals) THEN [orch |-> o, eng |-> e, ret |-> FALSE]
    ELSE LET pending == o.pending_approvals[i]
             action == pending.action
             r == apply_action(e, action, action.agent_role, wall)
         IN  IF Get(action, "id", None) = action_id
             THEN [orch |-> IF r.ret
                            THEN [o EXCEPT !.pending_approvals =
                                     SubSeq(@, 1, i - 1) \o SubSeq(@, i + 1, Len(@))]
                            ELSE o,
                   eng |-> r.eng, ret |-> r.ret]
             ELSE ApproveFrom(o, e, action_id, wall, i + 1)

\* AgentOrchestrator.approve_action
approve_action(o, e, action_id, approved_by, wall) == ApproveFrom(o, e, action_id, wall, 1)
(***************************************************************************)
(* audit/ledger.py: AuditLedger.                                           *)
(***************************************************************************)
\* None where bytes or their hex text are expected (Optional[bytes])
NoBytes == <<>>

\* json.dumps(obj, sort_keys=True): one canonical text per value
json_dumps(obj) == <<"json", obj>>

\* bytes.hex() and bytes.fromhex()
hex(b) == <<"hex", b>>
fromhex(h) == h[2]

\* private_key.sign(message, PSS, SHA256): a value only the key holder can form
sign(private_key, message) ==
    [signer |-> private_key, message |-> message]

\* public_key.verify(signature, message, PSS, SHA256) does not raise
verify(public_key, signature, message) ==
    signature.signer = public_key /\ signature.message = message

\* a dict without one key (dict.pop on a copy)
Without(d, key) == [k \in (DOMAIN d) \ {key} |-> d[k]]

\* AuditLedger.__init__
AuditLedger(key) ==
    [private_key |-> key, public_key |-> key, entries |-> <<>>, last_signature |-> NoBytes]

\* a duplicate check that never finds the id
ExistingNever(l, entry_id) == {}

\* the stored entries whose data carries the id
Existing(l, entry_id) ==
    {i \in 1..Len(l.entries) : Get(Get(l.entries[i], "data", <<>>), "id", None) = entry_id}

\* an append that forgets to remember the signature it made
append_stale_link(l, run_id, sim_time, entry_type, data, agent_role, now) ==
    LET entry_id == Get(data, "id", None)
        entry == [run_id |-> run_id,
                  sequence |-> Len(l.entries),
                  timestamp |-> <<"iso", now>>,
                  sim_time |-> <<"iso", sim_time>>,
                  entry_type |-> entry_type,
                  agent_role |-> agent_role,
                  data |-> data,
                  prev_signature |-> IF l.last_signature # NoBytes
                                     THEN hex(l.last_signature) ELSE NoBytes]
        signature == sign(l.private_key, json_dumps(entry))
        signed == Overlay(entry, [signature |-> hex(signature)])
    IN  IF Truthy(entry_id) /\ Existing(l, entry_id) # {}
        THEN [led |-> l,
              ret |-> l.entries[CHOOSE i \in Existing(l, entry_id) :
                                    \A j \in Existing(l, entry_id) : i <= j]]
        ELSE [led |-> [l EXCEPT !.entries = Append(@, signed)], ret |-> signed]

\* an append that stores the new entry over the recorded one with the same id
append_overwrite(l, run_id, sim_time, entry_type, data, agent_role, now) ==
    LET entry_id == Get(data, "id", None)
        entry == [run_id |-> run_id,
                  sequence |-> Len(l.entries),
                  timestamp |-> <<"iso", now>>,
                  sim_time |-> <<"iso", sim_time>>,
                  entry_type |-> entry_type,
                  agent_role |-> agent_role,
                  data |-> data,
                  prev_signature |-> IF l.last_signature # NoBytes
                                     THEN hex(l.last_signature) ELSE NoBytes]
        signature == sign(l.private_key, json_dumps(entry))
        signed == Overlay(entry, [signature |-> hex(signature)])
    IN  IF Truthy(entry_id) /\ Existing(l, entry_id) # {}
        THEN LET i == CHOOSE i \in Existing(l, entry_id) :
                          \A j \in Existing(l, entry_id) : i <= j
             IN  [led |-> [l EXCEPT !.entries[i] = signed], ret |-> signed]
        ELSE [led |-> [l EXCEPT !.entries = Append(@, signed),
                                !.last_signature = signature],
              ret |-> signed]

\* AuditLedger.append; now is datetime.utcnow()
append(l, run_id, sim_time, entry_type, data, agent_role, now) ==
    LET entry_id == Get(data, "id", None)
        entry == [run_id |-> run_id,
                  sequence |-> Len(l.entries),
                  timestamp |-> <<"iso", now>>,
                  sim_time |-> <<"iso", sim_time>>,
                  entry_type |-> entry_type,
                  agent_role |-> agent_role,
                  data |-> data,
                  prev_signature |-> IF l.last_signature # NoBytes
                                     THEN hex(l.last_signature) ELSE NoBytes]
        signature == sign(l.private_key, json_dumps(entry))
        signed == Overlay(entry, [signature |-> hex(signature)])
    IN  IF Truthy(entry_id) /\ Existing(l, entry_id) # {}
        THEN [led |-> l,
              ret |-> l.entries[CHOOSE i \in Existing(l, entry_id) :
                                    \A j \in Existing(l, entry_id) : i <= j]]
        ELSE [led |-> [l EXCEPT !.entries = Append(@, signed),
                                !.last_signature = signature],
              ret |-> signed]

\* a chain check that compares the links and never verifies a signature
RECURSIVE VerifyFromLinksOnly(_, _, _)
VerifyFromLinksOnly(l, i, prev_sig) ==
    IF i > Len(l.entries) THEN TRUE
    ELSE LET entry == l.entries[i]
             expected_prev == IF prev_sig # NoBytes THEN hex(prev_sig) ELSE NoBytes
         IN  IF Get(entry, "prev_signature", NoBytes) # expected_prev THEN FALSE
             ELSE VerifyFromLinksOnly(l, i + 1, fromhex(entry.signature))

\* the loop of verify_chain from entry i on, prev_sig being the last signature seen
RECURSIVE VerifyFrom(_, _, _)
VerifyFrom(l, i, prev_sig) ==
    IF i > Len(l.entries) THEN TRUE
    ELSE LET entry == l.entries[i]
             expected_prev == IF prev_sig # NoBytes THEN hex(prev_sig) ELSE NoBytes
             signature == fromhex(entry.signature)
             entry_json == json_dumps(Without(entry, "signature"))
         IN  IF Get(entry, "prev_signature", NoBytes) # expected_prev THEN FALSE
             ELSE IF ~verify(l.public_key, signature, entry_json) THEN FALSE
             ELSE VerifyFrom(l, i + 1, signature)

\* AuditLedger.verify_chain
verify_chain(l) == VerifyFrom(l, 1, NoBytes)

\* AuditLedger.get_entries
get_entries(l, run_id) ==
    IF Truthy(run_id) THEN SelectSeq(l.entries, LAMBDA e : e.run_id = run_id)
    ELSE l.entries

\* public_key.public_bytes(PEM, SubjectPublicKeyInfo).decode()
public_bytes(public_key) == <<"pem", public_key>>

\* AuditLedger.export_bundle; now is datetime.utcnow()
export_bundle(l, run_id, now) ==
    LET entries == get_entries(l, run_id)
        bundle == [run_id |-> run_id,
                   entries |-> entries,
                   entry_count |-> Len(entries),
                   public_key |-> public_bytes(l.public_key),
                   exported_at |-> <<"iso", now>>]
        bundle_signature == sign(l.private_key, json_dumps(bundle))
    IN  Overlay(bundle, [bundle_signature |-> hex(bundle_signature)])

(***************************************************************************)
(* events/loader.py: EventLoader.  severity is carried in hundredths.      *)
(***************************************************************************)
\* EventLoader.validate_timeline
validate_timeline(events) ==
    \A i \in 1..Len(events) :
        LET event == events[i]
        IN  /\ {"timestamp", "event_type", "severity", "duration_days"} \subseteq DOMAIN event
            /\ 0 <= event.severity /\ event.severity <= 100
            /\ ~(event.duration_days <= 0)
            /\ \A k \in 1..Len(Get(event, "signals", <<>>)) :
                  "release_time" \in DOMAIN event.signals[k]
(***************************************************************************)
(* Inputs.                                                                 *)
(***************************************************************************)
Seed == 42
CorruptCash == 9999999

Blueprint1 ==
    [industry |-> "saas",
     initial_conditions |-> [cash |-> 50000, monthly_burn |-> 150000, headcount |-> 20]]
Blueprint2 ==
    [industry |-> "saas",
     initial_conditions |-> [cash |-> 0, monthly_burn |-> 0, headcount |-> 0]]

Event1 ==
    [timestamp |-> 7, event_type |-> "supply_shock", severity |-> 1,
     duration_days |-> 14, parameter_impacts |-> [cost_multiplier |-> 200],
     signals |-> <<>>]

\* Timeline1 ends on a tick boundary, Timeline2 between two ticks
Timeline1 == [start_date |-> 0, end_date |-> EndDate + 1, events |-> <<>>]
Timeline2 == [start_date |-> 0, end_date |-> EndDate, events |-> <<Event1>>]

\* the (blueprint, timeline) pairs an engine is built from
Inputs ==
    { [blueprint |-> Blueprint1, timeline |-> Timeline1],
      [blueprint |-> Blueprint2, timeline |-> Timeline2] }

\* timelines a caller can hand to the constructor besides those: one that
\* ends before it starts, one with an event of severity 1.5, one with an
\* event that lasts no time
TimelineBackwards == [start_date |-> 7, end_date |-> 0, events |-> <<>>]
TimelineSevere ==
    [start_date |-> 0, end_date |-> EndDate,
     events |-> <<[Event1 EXCEPT !.severity = 150]>>]
TimelineInstant ==
    [start_date |-> 0, end_date |-> EndDate,
     events |-> <<[Event1 EXCEPT !.duration_days = 0]>>]
ConstructorInputs ==
    Inputs \cup
    { [blueprint |-> Blueprint1, timeline |-> tl] :
        tl \in {TimelineBackwards, TimelineSevere, TimelineInstant} }

\* what datetime.utcnow() can read in a second process
Wall == {1, 5}
Names == {"cp"}

Actions ==
    { [id |-> "a1", type |-> "adjust_hiring",
       params |-> [delta |-> 3, cost_per_head |-> 10000]],
      [id |-> "", type |-> "allocate_budget",
       params |-> [allocation |-> [ads |-> 20000, ops |-> 10000]]],
      [type |-> "adjust_hiring", params |-> [delta |-> -30]] }

\* one action or more of each of the five types; reduction_percent is in
\* hundredths
EffectActions ==
    { [type |-> "adjust_hiring", params |-> [delta |-> 5, cost_per_head |-> 10000]],
      [type |-> "adjust_hiring", params |-> [delta |-> -30]],
      [type |-> "change_pricing", params |-> [pricing |-> [team |-> 70]]],
      [type |-> "allocate_budget", params |-> [allocation |-> [ads |-> 20000, ops |-> 10000]]],
      [type |-> "allocate_budget", params |-> [allocation |-> [ads |-> 80000]]],
      [type |-> "modify_inventory_policy", params |-> [inventory |-> [widgets |-> 40]]],
      [type |-> "trigger_cost_cutting", params |-> [reduction_percent |-> 20]],
      [type |-> "trigger_cost_cutting"] }

\* datetime.utcnow() of a process that has written the records so far
Clock(records) == Len(records) + 1

NoAction == [type |-> "none"]
NoReplay == [name |-> None, k |-> 0]

\* the last call made on the ledger and what it returned
Call(op, run_id, ret) == [op |-> op, run_id |-> run_id, ret |-> ret]
NoCall == Call("none", None, <<>>)

\* the threads of test_concurrent_writes, each writing for its own run
Threads == {"t1", "t2"}
RunOf == [t \in Threads |-> IF t = "t1" THEN "run-A" ELSE "run-B"]

\* a thread that has not called append yet; the fields after done are the
\* locals of the append call it is in
Thread(run_id) ==
    [pc |-> "idle", run_id |-> run_id, done |-> 0, data |-> <<>>,
     sequence |-> 0, timestamp |-> 0, entry |-> <<>>, signature |-> NoBytes]

\* the agents an orchestrator is built with, in the order they are given
Agents == <<CEOAgent, PopulationAgent, CFOAgent>>

\* the policies of the orchestrator's policy engine
OrchestratorPolicies == [spend_limit_monthly |-> 100000]

\* what PopulationAgent.decide returns: market influences, which carry
\* neither an id nor an agent_role
Influence(effect) == [type |-> "market_influence", effect |-> effect]
Influences == { <<>>, <<Influence("demand_surge")>> }

\* what an agent's LLM call proposes
Small == [type |-> "allocate_budget",
          params |-> [allocation |-> [ads |-> 20000, ops |-> 10000]]]
Big == [type |-> "allocate_budget",
        params |-> [allocation |-> [ads |-> 80000, ops |-> 40000]]]
Costly == [type |-> "modify_pricing", params |-> <<>>, estimated_impact |-> 200000]
Hire == [type |-> "adjust_hiring", params |-> [delta |-> 3]]
Proposals == { <<>>, <<Small>>, <<Costly>>, <<Big, Hire>> }

\* a run whose agent may change prices: BaseAgent takes its permissions from
\* its constructor, AgentOrchestrator takes any list of agents
PricingAgent == BaseAgent("cmo", {"change_pricing"})
BlueprintPriced ==
    [industry |-> "saas",
     initial_conditions |-> [cash |-> 50000, monthly_burn |-> 150000, headcount |-> 20,
                             pricing |-> [team |-> 100]]]
Raise == [type |-> "change_pricing", params |-> [pricing |-> [team |-> 115]],
          estimated_impact |-> 200000]
Cut == [type |-> "change_pricing", params |-> [pricing |-> [team |-> 90]]]
Leap == [type |-> "change_pricing", params |-> [pricing |-> [team |-> 150]]]
PricingProposals == { <<>>, <<Raise>>, <<Cut>>, <<Leap>>, <<Raise, Cut>>, <<Cut, Raise>> }

\* a call of the orchestrator: the action gated or the id approved, the
\* policy result it got and what it returned
Gate_(op, action, action_id, policy_result, ret) ==
    [op |-> op, action |-> action, action_id |-> action_id,
     policy |-> policy_result, ret |-> ret]
NoGate == Gate_("none", NoAction, None, PolicyResult("none", <<>>, <<>>), FALSE)

\* no policy call made yet
NoPolicy ==
    [op |-> "none", policies |-> <<>>, action |-> NoAction, state |-> <<>>,
     result |-> PolicyResult("none", <<>>, <<>>), violations |-> <<>>]
\* the last call of simulate_forward and the metrics it returned
Outcome(op, action, checkpoint_state, ticks, metrics) ==
    [op |-> op, action |-> action, checkpoint_state |-> checkpoint_state,
     ticks |-> ticks, metrics |-> metrics]
NoOutcome == Outcome("none", NoAction, <<>>, 0, <<>>)

\* no time-lock call made yet
NoLock == [events |-> <<>>, t0 |-> 0, encrypted |-> <<>>, t |-> 0,
           accessible |-> <<>>, parent |-> 0, signals |-> <<>>, op |-> "none",
           input |-> <<>>, ok |-> TRUE]

Op(op, action, name, ret) == [op |-> op, action |-> action, name |-> name, ret |-> ret]

\* what a checkpoint is said to capture, read off the engine
Cursor(e) ==
    [state |-> e.state, current_time |-> e.current_time, rng |-> e.rng,
     current_tick |-> e.current_tick, active_events |-> e.active_events,
     event_history |-> e.event_history]

Init ==
    \E in \in Inputs :
        /\ engine = SimulationEngine(in.blueprint, in.timeline, Seed, TickDaysDefault, "k1")
        /\ twin = SimulationEngine(in.blueprint, in.timeline, Seed, TickDaysDefault, "k2")
        /\ lastOp = Op("init", NoAction, None, TRUE)
        /\ okIds = {}
        /\ ckptAt = [n \in Names |-> Cursor(engine)]
        /\ since = [n \in Names |-> <<>>]
        /\ open = [n \in Names |-> FALSE]
        /\ replay = NoReplay
        /\ altered = {}
        /\ restores = 0
        /\ ledger = AuditLedger("sk")
        /\ pristine = <<>>
        /\ lastAppend = [run_id |-> None, data |-> <<>>, ret |-> <<>>]
        /\ query = NoCall
        /\ threads = [t \in Threads |-> Thread(RunOf[t])]
        /\ lock = NoLock
        /\ policy = NoPolicy
        /\ orch = AgentOrchestrator(Agents, OrchestratorPolicies)
        /\ call = NoGate
        /\ outcome = NoOutcome

(***************************************************************************)
(* Engine operations.                                                      *)
(***************************************************************************)
Tick ==
    LET r == tick(engine)
    IN  /\ engine' = r.eng
        /\ lastOp' = Op("tick", NoAction, None, r.ret)
        /\ since' = [n \in Names |->
                        IF open[n] /\ Len(since[n]) < MaxTrace
                        THEN Append(since[n], r.eng.state) ELSE since[n]]
        /\ open' = [n \in Names |-> open[n] /\ Len(since[n]) < MaxTrace]
        /\ replay' = IF replay.name # None /\ replay.k < MaxTrace
                     THEN [replay EXCEPT !.k = @ + 1] ELSE NoReplay
        /\ UNCHANGED <<counterfactualVars, twin, okIds, ckptAt, altered, restores, ledgerVars, timelockVars, gateVars>>

ApplyAction ==
    \E action \in Actions :
        LET r == apply_action(engine, action, Get(action, "agent_role", None),
                              Clock(engine.transitions))
            action_id == Get(action, "id", None)
        IN  /\ r.eng # engine => Len(engine.transitions) < MaxTransitions
            /\ engine' = r.eng
            /\ lastOp' = Op("apply_action", action, None, r.ret)
            /\ okIds' = IF r.ret /\ action_id # None THEN okIds \cup {action_id} ELSE okIds
            /\ open' = [n \in Names |-> FALSE]
            /\ replay' = NoReplay
            /\ UNCHANGED <<counterfactualVars, twin, ckptAt, since, altered, restores, ledgerVars, timelockVars, gateVars>>

\* apply_action called with an action of any of the five types
ApplyEffect ==
    \E action \in EffectActions :
        LET r == apply_action(engine, action, None, Clock(engine.transitions))
        IN  /\ r.eng # engine => Len(engine.transitions) < MaxTransitions
            /\ engine' = r.eng
            /\ lastOp' = Op("apply_action", action, None, r.ret)
            /\ open' = [n \in Names |-> FALSE]
            /\ replay' = NoReplay
            /\ UNCHANGED <<counterfactualVars, twin, okIds, ckptAt, since, altered, restores, ledgerVars,
                           timelockVars, gateVars>>

CreateCheckpoint ==
    \E name \in Names :
        /\ engine' = create_checkpoint(engine, name)
        /\ lastOp' = Op("create_checkpoint", NoAction, name, TRUE)
        /\ ckptAt' = [ckptAt EXCEPT ![name] = Cursor(engine)]
        /\ since' = [since EXCEPT ![name] = <<>>]
        /\ open' = [open EXCEPT ![name] = TRUE]
        /\ replay' = IF replay.name = name THEN NoReplay ELSE replay
        /\ altered' = altered \ {name}
        /\ UNCHANGED <<counterfactualVars, twin, okIds, restores, ledgerVars, timelockVars, gateVars>>

RestoreCheckpoint ==
    \E name \in Names :
        LET r == restore_checkpoint(engine, name)
        IN  /\ restores < MaxRestores
            /\ restores' = restores + 1
            /\ engine' = r.eng
            /\ lastOp' = Op("restore_checkpoint", NoAction, name, r.ret)
            /\ open' = [n \in Names |-> FALSE]
            /\ replay' = IF r.ret THEN [name |-> name, k |-> 0] ELSE NoReplay
            /\ UNCHANGED <<counterfactualVars, twin, okIds, ckptAt, since, altered, ledgerVars, timelockVars, gateVars>>

\* the stored checkpoint is altered after it was created (its cash is changed)
CorruptCheckpoint ==
    \E name \in DOMAIN engine.checkpoints :
        /\ engine.checkpoints[name].cash # CorruptCash
        /\ engine' = [engine EXCEPT !.checkpoints[name].cash = CorruptCash]
        /\ lastOp' = Op("corrupt_checkpoint", NoAction, name, TRUE)
        /\ altered' = altered \cup {name}
        /\ UNCHANGED <<counterfactualVars, twin, okIds, ckptAt, since, open, replay, restores, ledgerVars, timelockVars, gateVars>>

\* two engines built from the same inputs take the same tick
ReplayTick ==
    /\ engine' = tick(engine).eng
    /\ twin' = tick(twin).eng
    /\ lastOp' = Op("tick", NoAction, None, tick(engine).ret)
    /\ UNCHANGED <<counterfactualVars, okIds, ckptAt, since, open, replay, altered, restores, ledgerVars, timelockVars, gateVars>>

\* ... and the same action, each at its own wall-clock time
ReplayApply ==
    \E action \in Actions, wall2 \in Wall :
        LET role == Get(action, "agent_role", None)
            r1 == apply_action(engine, action, role, Clock(engine.transitions))
            r2 == apply_action(twin, action, role, wall2)
        IN  /\ r1.eng # engine => Len(engine.transitions) < MaxTransitions
            /\ engine' = r1.eng
            /\ twin' = r2.eng
            /\ lastOp' = Op("apply_action", action, None, r1.ret)
            /\ UNCHANGED <<counterfactualVars, okIds, ckptAt, since, open, replay, altered, restores, ledgerVars, timelockVars, gateVars>>

\* SimulationEngine(blueprint, timeline, seed): a new engine takes the place
\* of the one held
Construct ==
    \E in \in ConstructorInputs :
        /\ engine' = SimulationEngine(in.blueprint, in.timeline, Seed, TickDaysDefault, "k1")
        /\ twin' = SimulationEngine(in.blueprint, in.timeline, Seed, TickDaysDefault, "k2")
        /\ lastOp' = Op("init", NoAction, None, TRUE)
        /\ okIds' = {}
        /\ ckptAt' = [n \in Names |-> Cursor(engine')]
        /\ since' = [n \in Names |-> <<>>]
        /\ open' = [n \in Names |-> FALSE]
        /\ replay' = NoReplay
        /\ altered' = {}
        /\ UNCHANGED <<counterfactualVars, restores, ledgerVars, timelockVars, gateVars>>

\* CounterfactualEngine(engine).simulate_forward(action, checkpoint_state,
\* ticks) with the state of a checkpoint of the live engine
SimulateForward ==
    \E action \in Actions, name \in DOMAIN engine.checkpoints, ticks \in 0..MaxTicks :
        LET checkpoint_state == engine.checkpoints[name]
            metrics == simulate_forward(engine, action, checkpoint_state, ticks,
                                        Clock(engine.transitions))
        IN  /\ outcome' = Outcome("simulate_forward", action, checkpoint_state, ticks,
                                  metrics)
            /\ UNCHANGED <<engineVars, ledgerVars, timelockVars, gateVars>>

(***************************************************************************)
(* Ledger operations.                                                      *)
(***************************************************************************)
RunIds == {"run-A", "run-B"}
Datas == { [value |-> 1], [id |-> "e1", value |-> 1], [id |-> "e1", value |-> 2],
           [id |-> "", value |-> 3] }
TamperedDatas == { [value |-> 999], [id |-> "e1", value |-> 1] }

\* the run_id argument of get_entries: a run, or None for all entries
RunFilters == RunIds \cup {None}

Append_ ==
    \E run_id \in RunIds, data \in Datas :
        LET r == append(ledger, run_id, engine.current_time, "test", data, None,
                       Clock(ledger.entries))
        IN  /\ r.led # ledger => Len(ledger.entries) < MaxEntries
            /\ ledger' = r.led
            /\ pristine' = IF r.led # ledger THEN Append(pristine, r.ret) ELSE pristine
            /\ lastAppend' = [run_id |-> run_id, data |-> data, ret |-> r.ret]
            /\ query' = Call("append", run_id, r.ret)
            /\ UNCHANGED <<counterfactualVars, threads, engineVars, timelockVars, gateVars>>

\* the stored entries whose data is no longer the data that was appended
Changed == {i \in 1..Len(ledger.entries) : ledger.entries[i].data # pristine[i].data}

\* the data of a single stored entry is changed in place, the signature is not
Tamper ==
    \E i \in 1..Len(ledger.entries), data \in TamperedDatas :
        /\ Changed = {}
        /\ data # ledger.entries[i].data
        /\ ledger' = [ledger EXCEPT !.entries[i].data = data]
        /\ UNCHANGED <<counterfactualVars, pristine, lastAppend, query, threads, engineVars, timelockVars, gateVars>>

VerifyChain ==
    /\ query' = Call("verify_chain", None, verify_chain(ledger))
    /\ UNCHANGED <<counterfactualVars, ledger, pristine, lastAppend, threads, engineVars, timelockVars, gateVars>>

GetEntries ==
    \E run_id \in RunFilters :
        /\ query' = Call("get_entries", run_id, get_entries(ledger, run_id))
        /\ UNCHANGED <<counterfactualVars, ledger, pristine, lastAppend, threads, engineVars, timelockVars, gateVars>>

ExportBundle ==
    \E run_id \in RunIds :
        /\ query' = Call("export_bundle", run_id,
                         export_bundle(ledger, run_id, Clock(ledger.entries)))
        /\ UNCHANGED <<counterfactualVars, ledger, pristine, lastAppend, threads, engineVars, timelockVars, gateVars>>

(***************************************************************************)
(* Time-lock operations on event lists of their own.                       *)
(***************************************************************************)
\* the days at which the time-lock is asked
Times == {0, 7, 14}

PastEvent == [timestamp |-> 0, event_type |-> "past_event", signals |-> <<>>]
StagedEvent ==
    [timestamp |-> 14, event_type |-> "staged_event",
     signals |-> << [release_time |-> 7, type |-> "rumor", content |-> "early signal"],
                    [release_time |-> 14, type |-> "confirmed",
                     content |-> "confirmed signal"] >>]
LockEvents == {PastEvent, Event1, StagedEvent}

\* the event lists of at most MaxEvents events
EventLists == UNION {[1..n -> LockEvents] : n \in 0..MaxEvents}

EncryptFutureEvents ==
    \E events \in EventLists, t0 \in Times :
        /\ lock' = [NoLock EXCEPT
               !.op = "encrypt", !.events = events, !.t0 = t0,
               !.encrypted = encrypt_future_events(engine.timelock.encryption_key,
                                                   events, t0)]
        /\ UNCHANGED <<counterfactualVars, engineVars, ledgerVars, gateVars>>

GetAccessibleEvents ==
    \E t \in Times :
        /\ lock.op # "none"
        /\ lock' = [lock EXCEPT
               !.op = "events", !.t = t,
               !.accessible = get_accessible_events(lock.encrypted, t)]
        /\ UNCHANGED <<counterfactualVars, engineVars, ledgerVars, gateVars>>

\* the signal lookup for the parent event at position parent of the time-locked
\* list
GetEventSignals ==
    \E t \in Times, parent \in 1..Len(lock.encrypted) :
        /\ lock' = [lock EXCEPT
               !.op = "signals", !.t = t, !.parent = parent,
               !.signals = get_event_signals(
                   InformationContext(t, engine.timelock, lock.encrypted),
                   lock.encrypted[parent])]
        /\ UNCHANGED <<counterfactualVars, engineVars, ledgerVars, gateVars>>

(***************************************************************************)
(* verify_no_future_access on structures of its own.                       *)
(***************************************************************************)
\* the values a field holds: ISO strings of a past and a later day, a str that
\* is no date, a datetime and a number
Leaves == {IsoStr(0), IsoStr(14), Str("soon"), Datetime(14), Num(20)}
FieldKeys == {"timestamp", "time", "date", "release_time"}

\* dicts of one field
Flat == {Dict([k \in {key} |-> v]) : key \in FieldKeys, v \in Leaves}

\* lists of one or two such dicts
Lists == {List(<<x>>) : x \in Flat}
             \cup {List(<<Dict([timestamp |-> IsoStr(0)]), x>>) : x \in Flat}

\* a dict holding a dict or a list of dicts
Nested == {Dict([k \in {key} |-> x]) : key \in {"timestamp", "events"},
                                        x \in Flat \cup Lists}

AgentInputs == Flat \cup Lists \cup Nested

VerifyNoFutureAccess ==
    \E agent_input \in AgentInputs, t \in Times :
        /\ lock' = [NoLock EXCEPT
               !.op = "verify", !.input = agent_input, !.t = t,
               !.ok = verify_no_future_access(agent_input, t)]
        /\ UNCHANGED <<counterfactualVars, engineVars, ledgerVars, gateVars>>

(***************************************************************************)
(* The information context as the Python value handed to agents.           *)
(***************************************************************************)
\* a value of a type check_timestamps neither reads nor walks into
Other(x) == [kind |-> "other", val |-> x]

\* a list of signal dicts: release_time is an ISO str
SignalList(signals) ==
    List([i \in 1..Len(signals) |->
            Dict([k \in DOMAIN signals[i] |->
                    IF k = "release_time" THEN IsoStr(signals[i][k])
                    ELSE Str(signals[i][k])])])

\* an event dict of the timeline or its encrypted entry: timestamp is an ISO
\* str, signals a list of dicts
EventDict(event) ==
    Dict([k \in DOMAIN event |->
            IF k = "timestamp" THEN IsoStr(event[k])
            ELSE IF k = "signals" THEN SignalList(event[k])
            ELSE Other(event[k])])

EventDicts(events) == List([i \in 1..Len(events) |-> EventDict(events[i])])

\* the dict get_information_context returns
ContextDict(context) ==
    Dict([current_time |-> Datetime(context.current_time),
          timelock |-> Other(context.timelock),
          all_events |-> EventDicts(context.all_events),
          active_events |-> EventDicts(context.active_events),
          recent_events |-> EventDicts(context.recent_events),
          current_tick |-> Num(context.current_tick)])

\* the context of a decision cycle, checked as data handed to an agent
GetInformationContext ==
    LET context == ContextDict(get_information_context(engine))
    IN  /\ lock' = [NoLock EXCEPT
               !.op = "context", !.input = context, !.t = engine.current_time,
               !.ok = verify_no_future_access(context, engine.current_time)]
        /\ UNCHANGED <<counterfactualVars, engineVars, ledgerVars, gateVars>>

(***************************************************************************)
(* The policy engine on actions, states and policies of its own.           *)
(***************************************************************************)
\* the policies a PolicyEngine is built with: none, the spend limit alone,
\* every key evaluate_action and check_invariants read
PolicySets ==
    { <<>>,
      [spend_limit_monthly |-> 100000],
      [spend_limit_monthly |-> 25000, approval_threshold |-> 50000,
       risk_appetite |-> 30, max_percent_change |-> [pricing |-> 10],
       min_runway_months |-> 6,
       constraints |-> [hiring_velocity_max |-> 5, sla_targets |-> [min |-> 99]]] }

\* the actions evaluated, before estimated_impact and risk_score are set
BaseActions ==
    { [type |-> "allocate_budget",
       params |-> [allocation |-> [ads |-> 80000, ops |-> 40000]]],
      [type |-> "allocate_budget",
       params |-> [allocation |-> [ads |-> 20000, ops |-> 10000]]],
      [type |-> "change_pricing", params |-> [pricing |-> [basic |-> 115, pro |-> 50]]],
      [type |-> "change_pricing", params |-> [pricing |-> [basic |-> 130, team |-> 70]]],
      [type |-> "adjust_hiring", params |-> [delta |-> 3]],
      [type |-> "adjust_hiring", params |-> [delta |-> -8]],
      [type |-> "adjust_hiring", params |-> [delta |-> 30]],
      [type |-> "trigger_cost_cutting", params |-> [reduction_percent |-> 10]] }

\* estimated_impact and risk_score as an agent sets them, or leaves them out
Estimates ==
    { <<>>, [estimated_impact |-> 60000], [estimated_impact |-> 200000],
      [risk_score |-> 40], [risk_score |-> 80],
      [estimated_impact |-> 100000, risk_score |-> 50] }

PolicyActions == { Overlay(a, x) : a \in BaseActions, x \in Estimates }

\* the prices of the state the action is evaluated against
Pricings == { <<>>, [basic |-> 100, pro |-> 0, team |-> 100] }

\* evaluate_action of a PolicyEngine(policies) on the engine's state
EvaluateAction ==
    \E policies \in PolicySets, action \in PolicyActions, pricing \in Pricings :
        LET state == Overlay(to_dict(engine.state), [pricing |-> pricing])
        IN  /\ policy' = [op |-> "evaluate", policies |-> policies, action |-> action,
                          state |-> state,
                          result |-> evaluate_action(policies, action, state, "ceo"),
                          violations |-> <<>>]
            /\ UNCHANGED <<counterfactualVars, engineVars, ledgerVars, timelockVars, orch, call>>
\* check_invariants of a PolicyEngine(policies) on the engine's state as the
\* orchestrator hands state to the policy engine: state.to_dict()
CheckInvariants ==
    \E policies \in PolicySets :
        LET state == to_dict(engine.state)
        IN  /\ policy' = [op |-> "invariants", policies |-> policies,
                          action |-> NoAction, state |-> state,
                          result |-> PolicyResult("none", <<>>, <<>>),
                          violations |-> check_invariants(policies, state)]
            /\ UNCHANGED <<counterfactualVars, engineVars, ledgerVars, timelockVars, orch, call>>
(***************************************************************************)
(* The orchestrator.  run_decision_cycle is a coroutine: it is suspended   *)
(* while the population agent and the agents' tasks run, and the tasks     *)
(* finish in any order; the gating loop has no suspension point, so        *)
(* nothing else runs between its first and its last action.                *)
(***************************************************************************)
\* AgentOrchestrator(agents, policy_engine, simulation) over a new engine
\* and one agent that may change prices
ConstructRun ==
    /\ engine' = SimulationEngine(BlueprintPriced, Timeline1, Seed, TickDaysDefault, "k1")
    /\ twin' = SimulationEngine(BlueprintPriced, Timeline1, Seed, TickDaysDefault, "k2")
    /\ orch' = AgentOrchestrator(<<PricingAgent>>, OrchestratorPolicies)
    /\ call' = NoGate
    /\ lastOp' = Op("init", NoAction, None, TRUE)
    /\ okIds' = {}
    /\ ckptAt' = [n \in Names |-> Cursor(engine')]
    /\ since' = [n \in Names |-> <<>>]
    /\ open' = [n \in Names |-> FALSE]
    /\ replay' = NoReplay
    /\ altered' = {}
    /\ UNCHANGED <<counterfactualVars, restores, ledgerVars, timelockVars, policy>>

\* run_decision_cycle up to the start of the agents' tasks
StartCycle ==
    /\ orch.pc = "idle"
    /\ \E influences \in Influences :
          orch' = [orch EXCEPT
              !.pc = "agents",
              !.all_actions = IF HasAgent(orch.agents, "population")
                              THEN influences ELSE <<>>,
              !.finished = <<>>, !.decided = <<>>, !.next = 1, !.results = <<>>,
              !.failed = {}]
    /\ call' = Gate_("cycle", NoAction, None, PolicyResult("none", <<>>, <<>>), FALSE)
    /\ UNCHANGED <<counterfactualVars, engineVars, ledgerVars, timelockVars, policy>>

\* _get_agent_decision of one task: the tasks finish in any order
AgentDecides ==
    /\ orch.pc = "agents"
    /\ \E i \in 1..Len(TaskRoles(orch.agents)), proposal \in Proposals :
          LET role == TaskRoles(orch.agents)[i]
              decisions == decide(AgentOf(orch.agents, role), proposal, orch.issued)
          IN  /\ \A j \in 1..Len(orch.finished) : orch.finished[j] # role
              /\ orch.issued + Len(proposal) <= MaxIds
              /\ orch' = [orch EXCEPT
                     !.decided = Overlay(@, [r \in {role} |-> decisions]),
                     !.finished = Append(@, role),
                     !.issued = @ + Len(proposal)]
    /\ call' = Gate_("decide", NoAction, None, PolicyResult("none", <<>>, <<>>), FALSE)
    /\ UNCHANGED <<counterfactualVars, engineVars, ledgerVars, timelockVars, policy>>

\* _get_agent_decision of the task of an agent that proposes prices
PricingDecides ==
    /\ orch.pc = "agents"
    /\ \E i \in 1..Len(TaskRoles(orch.agents)), proposal \in PricingProposals :
          LET role == TaskRoles(orch.agents)[i]
              decisions == decide(AgentOf(orch.agents, role), proposal, orch.issued)
          IN  /\ \A j \in 1..Len(orch.finished) : orch.finished[j] # role
              /\ orch.issued + Len(proposal) <= MaxIds
              /\ orch' = [orch EXCEPT
                     !.decided = Overlay(@, [r \in {role} |-> decisions]),
                     !.finished = Append(@, role),
                     !.issued = @ + Len(proposal)]
    /\ call' = Gate_("decide", NoAction, None, PolicyResult("none", <<>>, <<>>), FALSE)
    /\ UNCHANGED <<counterfactualVars, engineVars, ledgerVars, timelockVars, policy>>

\* asyncio.gather returns and all_actions is completed
Gather ==
    /\ orch.pc = "agents"
    /\ Len(orch.finished) = Len(TaskRoles(orch.agents))
    /\ LET all_actions == orch.all_actions \o Flatten(TaskRoles(orch.agents), orch.decided)
       IN  orch' = [orch EXCEPT !.all_actions = all_actions, !.pc = "gating"]
    /\ call' = Gate_("gather", NoAction, None, PolicyResult("none", <<>>, <<>>), FALSE)
    /\ UNCHANGED <<counterfactualVars, engineVars, ledgerVars, timelockVars, policy>>

\* the task of one agent raises (agent.decide or _store_agent_decision):
\* asyncio.gather, called without return_exceptions, raises it in
\* run_decision_cycle, which has no handler and ends without a result list;
\* failed keeps the role whose task raised
AgentFails ==
    /\ orch.pc = "agents"
    /\ \E i \in 1..Len(TaskRoles(orch.agents)) :
          LET role == TaskRoles(orch.agents)[i]
          IN  /\ \A j \in 1..Len(orch.finished) : orch.finished[j] # role
              /\ orch' = [orch EXCEPT !.pc = "idle", !.all_actions = <<>>,
                                      !.finished = <<>>, !.decided = <<>>,
                                      !.next = 1, !.results = <<>>,
                                      !.failed = {role}]
    /\ call' = Gate_("raised", NoAction, None, PolicyResult("none", <<>>, <<>>), FALSE)
    /\ UNCHANGED <<counterfactualVars, engineVars, ledgerVars, timelockVars, policy>>

\* one round of the gating loop: _evaluate_and_execute and results.append
Gate ==
    /\ orch.pc = "gating"
    /\ orch.next <= Len(orch.all_actions)
    /\ LET action == orch.all_actions[orch.next]
           r == _evaluate_and_execute(orch, engine, action, Clock(engine.transitions))
           applied == r.result.status \in {"executed", "failed"}
       IN  /\ engine' = r.eng
           /\ orch' = [r.orch EXCEPT !.results = Append(@, r.result), !.next = @ + 1]
           /\ call' = Gate_("gate", action, Get(action, "id", None), r.policy,
                            r.result.status = "executed")
           /\ lastOp' = IF applied
                        THEN Op("apply_action", action, None, r.result.status = "executed")
                        ELSE lastOp
           /\ okIds' = IF r.result.status = "executed"
                       THEN okIds \cup {action.id} ELSE okIds
           /\ open' = IF applied THEN [n \in Names |-> FALSE] ELSE open
           /\ replay' = IF applied THEN NoReplay ELSE replay
    /\ UNCHANGED <<counterfactualVars, twin, ckptAt, since, altered, restores, ledgerVars, timelockVars,
                   policy>>

\* run_decision_cycle returns results; its locals are gone
Return ==
    /\ orch.pc = "gating"
    /\ orch.next > Len(orch.all_actions)
    /\ orch' = [orch EXCEPT !.pc = "idle", !.all_actions = <<>>, !.finished = <<>>,
                            !.decided = <<>>, !.next = 1, !.results = <<>>]
    /\ call' = Gate_("return", NoAction, None, PolicyResult("none", <<>>, <<>>), FALSE)
    /\ UNCHANGED <<counterfactualVars, engineVars, ledgerVars, timelockVars, policy>>

\* the run's tick: ticks and decision cycles of one run follow one another,
\* no tick is taken while a cycle is under way
AdvanceTime == orch.pc = "idle" /\ Tick

\* the ids approve_action is called with: those of the queue and one that is
\* not queued
ApprovalIds ==
    {orch.pending_approvals[i].action.id : i \in 1..Len(orch.pending_approvals)}
        \cup {"u0"}

\* approve_action, called while no gating loop runs
ApproveAction ==
    /\ orch.pc # "gating"
    /\ \E action_id \in ApprovalIds :
          LET r == approve_action(orch, engine, action_id, "board",
                                  Clock(engine.transitions))
              found == \E i \in 1..Len(orch.pending_approvals) :
                          orch.pending_approvals[i].action.id = action_id
          IN  /\ engine' = r.eng
              /\ orch' = r.orch
              /\ call' = Gate_("approve", NoAction, action_id,
                               PolicyResult("none", <<>>, <<>>), r.ret)
              /\ lastOp' = IF found
                           THEN Op("apply_action", [id |-> action_id], None, r.ret)
                           ELSE lastOp
              /\ okIds' = IF r.ret THEN okIds \cup {action_id} ELSE okIds
              /\ open' = IF found THEN [n \in Names |-> FALSE] ELSE open
              /\ replay' = IF found THEN NoReplay ELSE replay
    /\ UNCHANGED <<counterfactualVars, twin, ckptAt, since, altered, restores, ledgerVars, timelockVars,
                   policy>>

(***************************************************************************)
(* Concurrent appends: AuditLedger.append takes no lock, so a thread can   *)
(* be preempted between any two of its statements.  The steps are the      *)
(* statements that read or write the shared entries and last_signature.    *)
(***************************************************************************)
\* lines 35-42: the duplicate check, sequence = len(self.entries), utcnow()
ReadSequence ==
    \E t \in Threads :
        LET th == threads[t]
            data == [thread |-> th.run_id, index |-> th.done]
            entry_id == Get(data, "id", None)
        IN  /\ th.pc = "idle"
            /\ th.done < AppendsPerThread
            /\ threads' = [threads EXCEPT ![t] =
                    IF Truthy(entry_id) /\ Existing(ledger, entry_id) # {}
                    THEN [th EXCEPT !.done = @ + 1]
                    ELSE [th EXCEPT !.pc = "build", !.data = data,
                                    !.sequence = Len(ledger.entries),
                                    !.timestamp = Clock(ledger.entries)]]
            /\ UNCHANGED <<counterfactualVars, ledger, pristine, lastAppend, query, engineVars, timelockVars, gateVars>>

\* lines 44-66: the entry with prev_signature read from self.last_signature,
\* and its signature
BuildEntry ==
    \E t \in Threads :
        LET th == threads[t]
            entry == [run_id |-> th.run_id,
                      sequence |-> th.sequence,
                      timestamp |-> <<"iso", th.timestamp>>,
                      sim_time |-> <<"iso", engine.current_time>>,
                      entry_type |-> "concurrent_test",
                      agent_role |-> None,
                      data |-> th.data,
                      prev_signature |-> IF ledger.last_signature # NoBytes
                                         THEN hex(ledger.last_signature) ELSE NoBytes]
            signature == sign(ledger.private_key, json_dumps(entry))
        IN  /\ th.pc = "build"
            /\ threads' = [threads EXCEPT ![t] =
                    [th EXCEPT !.pc = "publish", !.signature = signature,
                               !.entry = Overlay(entry, [signature |-> hex(signature)])]]
            /\ UNCHANGED <<counterfactualVars, ledger, pristine, lastAppend, query, engineVars, timelockVars, gateVars>>

\* line 67: self.last_signature = signature
SetLastSignature ==
    \E t \in Threads :
        /\ threads[t].pc = "publish"
        /\ ledger' = [ledger EXCEPT !.last_signature = threads[t].signature]
        /\ threads' = [threads EXCEPT ![t].pc = "store"]
        /\ UNCHANGED <<counterfactualVars, pristine, lastAppend, query, engineVars, timelockVars, gateVars>>

\* lines 69-70: self.entries.append(entry); return entry
StoreEntry ==
    \E t \in Threads :
        /\ threads[t].pc = "store"
        /\ ledger' = [ledger EXCEPT !.entries = Append(@, threads[t].entry)]
        /\ threads' = [threads EXCEPT ![t].pc = "idle", ![t].done = @ + 1]
        /\ UNCHANGED <<counterfactualVars, pristine, lastAppend, query, engineVars, timelockVars, gateVars>>

(***************************************************************************)
(* Specifications.                                                         *)
(***************************************************************************)
Next == Tick \/ ApplyAction \/ CreateCheckpoint \/ RestoreCheckpoint
Spec == Init /\ [][Next]_vars

NextTickApply == Tick \/ ApplyAction
SpecTickApply == Init /\ [][NextTickApply]_vars

NextReplay == ReplayTick \/ ReplayApply
SpecReplay == Init /\ [][NextReplay]_vars

NextCorrupt == Tick \/ CreateCheckpoint \/ RestoreCheckpoint \/ CorruptCheckpoint
SpecCorrupt == Init /\ [][NextCorrupt]_vars

NextLedger == Append_
SpecLedger == Init /\ [][NextLedger]_vars

NextLedgerTamper == Append_ \/ Tamper
SpecLedgerTamper == Init /\ [][NextLedgerTamper]_vars

NextLedgerOps == Append_ \/ VerifyChain \/ GetEntries \/ ExportBundle
SpecLedgerOps == Init /\ [][NextLedgerOps]_vars

NextTimeLock == EncryptFutureEvents \/ GetAccessibleEvents \/ GetEventSignals \/ Tick
SpecTimeLock == Init /\ [][NextTimeLock]_vars

NextVerify == VerifyNoFutureAccess
SpecVerify == Init /\ [][NextVerify]_vars

NextContext == Tick \/ ApplyAction \/ GetInformationContext
SpecContext == Init /\ [][NextContext]_vars

NextConcurrent == ReadSequence \/ BuildEntry \/ SetLastSignature \/ StoreEntry
SpecConcurrent == Init /\ [][NextConcurrent]_vars

NextPolicy == EvaluateAction \/ Tick
SpecPolicy == Init /\ [][NextPolicy]_vars

NextOrchestrator ==
    StartCycle \/ AgentDecides \/ Gather \/ Gate \/ Return \/ ApproveAction \/ AdvanceTime
SpecOrchestrator == Init /\ [][NextOrchestrator]_vars

NextAgentFailure ==
    StartCycle \/ AgentDecides \/ AgentFails \/ Gather \/ Gate \/ Return
SpecAgentFailure == Init /\ [][NextAgentFailure]_vars

NextConstruct == Construct \/ Tick \/ ApplyAction
SpecConstruct == Init /\ [][NextConstruct]_vars

NextEffects == ApplyEffect \/ Tick
SpecEffects == Init /\ [][NextEffects]_vars

\* a run: the caller keeps calling tick, with apply_action calls in between
FairRun == WF_vars(Tick)
SpecRun == Init /\ [][NextTickApply]_vars /\ FairRun

NextApproval ==
    ConstructRun \/ StartCycle \/ PricingDecides \/ Gather \/ Gate \/ Return \/ ApproveAction
SpecApproval == Init /\ [][NextApproval]_vars

NextCounterfactual == Tick \/ ApplyAction \/ CreateCheckpoint \/ SimulateForward
SpecCounterfactual == Init /\ [][NextCounterfactual]_vars

NextInvariants == CheckInvariants \/ Tick \/ ApplyAction
SpecInvariants == Init /\ [][NextInvariants]_vars

(***************************************************************************)
(* Properties.                                                             *)
(***************************************************************************)
LastId == Get(lastOp.action, "id", None)
LastId_ == Get(lastOp'.action, "id", None)

EngineLogsUnchanged ==
    /\ engine'.state = engine.state
    /\ engine'.state_history = engine.state_history
    /\ engine'.transitions = engine.transitions

\* C1 (as stated): once apply_action has returned true for an action with a
\* non-null id, every later apply_action with that id returns true and leaves
\* state, state_history and the transition log unchanged.
C1_IdempotentForNonNullId ==
    [][(lastOp'.op = "apply_action" /\ LastId_ # None /\ LastId_ \in okIds)
          => (lastOp'.ret = TRUE /\ EngineLogsUnchanged)]_vars

\* C1 (amended): the same for every action whose id is neither null nor the
\* empty string.
C1_IdempotentForNonEmptyId ==
    [][(lastOp'.op = "apply_action" /\ Truthy(LastId_) /\ LastId_ \in okIds)
          => (lastOp'.ret = TRUE /\ EngineLogsUnchanged)]_vars

\* a1 was applied, the state has moved on since, and a1 was applied again
C1_Witness ==
    /\ lastOp.op = "apply_action" /\ LastId = "a1" /\ lastOp.ret
    /\ \E i \in Recorded(engine, "a1") :
          /\ engine.transitions[i].after # engine.state
          /\ engine.transitions[i].after.headcount = engine.state.headcount
    /\ engine.state.version > 1

\* C2: a transition apply_action commits has after.cash >= 0, after.headcount
\* >= 0, after.version = before.version + 1 and after.timestamp >=
\* before.timestamp; a call whose candidate state breaks one of these returns
\* false and commits nothing.
C2_CommitsOnlyValidTransitions ==
    [][lastOp'.op = "apply_action" =>
          LET action == lastOp'.action
              cand == _apply_action_to_state(engine, engine.state, action)
              known == Truthy(LastId_) /\ Recorded(engine, LastId_) # {}
              broken == \/ cand.cash < 0
                        \/ cand.headcount < 0
                        \/ cand.version # engine.state.version + 1
                        \/ cand.timestamp < engine.state.timestamp
          IN  /\ (engine' # engine) =>
                    LET t == engine'.transitions[Len(engine'.transitions)]
                    IN  /\ Len(engine'.transitions) = Len(engine.transitions) + 1
                        /\ t.before = engine.state
                        /\ t.after = engine'.state
                        /\ t.after.cash >= 0
                        /\ t.after.headcount >= 0
                        /\ t.after.version = t.before.version + 1
                        /\ t.after.timestamp >= t.before.timestamp
              /\ (broken /\ ~known) => (lastOp'.ret = FALSE /\ engine' = engine)]_vars

\* an action was just committed on top of an earlier tick
C2_Witness ==
    /\ lastOp.op = "apply_action" /\ lastOp.ret
    /\ engine.transitions # <<>>
    /\ engine.transitions[Len(engine.transitions)].after = engine.state
    /\ engine.transitions[Len(engine.transitions)].action = lastOp.action
    /\ engine.current_tick >= 1

RECURSIVE VersionsIncrease(_)
VersionsIncrease(history) ==
    \/ Len(history) < 2
    \/ /\ history[2].version > history[1].version
       /\ VersionsIncrease(Tail(history))

\* C3: in every reachable state the current state has cash >= 0 and
\* headcount >= 0, and each committed state has a version greater than its
\* predecessor's.
C3_CashAndHeadcountNeverNegative ==
    /\ engine.state.cash >= 0
    /\ engine.state.headcount >= 0
    /\ VersionsIncrease(engine.state_history)

\* C4: when apply_action returns false, state, state_history, the transition
\* log, current_time and current_tick are what they were before the call.
C4_RejectedActionIsNoOp ==
    [][(lastOp'.op = "apply_action" /\ lastOp'.ret = FALSE)
          => /\ EngineLogsUnchanged
             /\ engine'.current_time = engine.current_time
             /\ engine'.current_tick = engine.current_tick]_vars

\* an action was refused on a state whose cash a tick had driven below zero
C4_Witness ==
    /\ lastOp.op = "apply_action" /\ lastOp.ret = FALSE
    /\ engine.state.cash < 0
    /\ engine.state_history[Len(engine.state_history)] = engine.state

\* C5: two engines built from the same blueprint, timeline, seed and tick_days
\* and driven by the same calls have equal states, hence equal state hashes,
\* after every step.
C5_ReplayIsDeterministic ==
    /\ engine.state = twin.state
    /\ hash(engine.state) = hash(twin.state)

\* both engines ticked and committed an action at different wall-clock times
C5_Witness ==
    /\ engine.current_tick >= 1
    /\ engine.transitions # <<>>
    /\ Len(twin.transitions) = Len(engine.transitions)
    /\ engine.transitions # twin.transitions
    /\ engine.timelock # twin.timelock

C7_RestoreRestoresCursor ==
    (lastOp.op = "restore_checkpoint" /\ lastOp.ret)
        => Cursor(engine) = ckptAt[lastOp.name]

\* C8: restoring a checkpoint altered after its creation is refused and the
\* altered state is not installed.
C8_CorruptedCheckpointRejected ==
    (lastOp.op = "restore_checkpoint" /\ lastOp.name \in altered)
        => /\ lastOp.ret = FALSE
           /\ engine.state.cash # CorruptCash

\* C9: after any sequence of appends verify_chain is true: the first entry
\* has no prev_signature, every later one carries the signature of the entry
\* before it, and every signature verifies over the entry without it.
C9_ChainVerifiesAfterAppends ==
    /\ verify_chain(ledger)
    /\ \A i \in 1..Len(ledger.entries) :
          LET entry == ledger.entries[i]
          IN  /\ entry.prev_signature =
                    (IF i = 1 THEN NoBytes ELSE ledger.entries[i - 1].signature)
              /\ verify(ledger.public_key, fromhex(entry.signature),
                        json_dumps(Without(entry, "signature")))

\* three entries, with and without id, and a repeated id that added nothing
C9_Witness ==
    /\ Len(ledger.entries) = 3
    /\ \E i, j \in 1..3 : /\ "id" \in DOMAIN ledger.entries[i].data
                          /\ "id" \notin DOMAIN ledger.entries[j].data
    /\ Get(lastAppend.data, "id", None) = "e1"
    /\ lastAppend.ret \in {ledger.entries[i] : i \in 1..2}
    /\ lastAppend.ret.data # lastAppend.data

\* C10: once the data of a stored entry differs from what was signed,
\* verify_chain is false.
C10_TamperedDataFailsVerification ==
    (Changed # {}) => ~verify_chain(ledger)

\* only the middle one of three entries was changed
C10_Witness ==
    /\ Len(ledger.entries) = 3
    /\ Changed = {2}

\* the id of the data of the append call a step makes, and the stored entries
\* that carried it before the call
CallId_ == Get(lastAppend'.data, "id", None)
Before_ ==
    {i \in 1..Len(ledger.entries) :
        /\ "id" \in DOMAIN ledger.entries[i].data
        /\ ledger.entries[i].data.id = CallId_}

BeforeInRun_ == {i \in Before_ : ledger.entries[i].run_id = lastAppend'.run_id}

\* C12: an append for run B whose data.id matches only an entry recorded for
\* another run A is not a duplicate: it creates a new entry with run_id B.
C12_IdempotencyScopedToRun ==
    [][(lastAppend' # lastAppend /\ Truthy(CallId_)
            /\ Before_ # {} /\ BeforeInRun_ = {}) =>
          /\ Len(ledger'.entries) = Len(ledger.entries) + 1
          /\ lastAppend'.ret.run_id = lastAppend'.run_id
          /\ lastAppend'.ret = ledger'.entries[Len(ledger'.entries)]]_vars

\* C13: for every run_id the sequence numbers of the run's entries are
\* 0..N-1 in append order, also when the ledger holds several runs.
C13_SequenceDensePerRun ==
    \A run_id \in RunIds :
        LET entries == get_entries(ledger, run_id)
        IN  \A i \in 1..Len(entries) : entries[i].sequence = i - 1

\* a sequence of entries is a chain of its own: no predecessor for the first,
\* the preceding entry's signature for each later one
SelfContained(entries) ==
    \A i \in 1..Len(entries) :
        entries[i].prev_signature =
            (IF i = 1 THEN NoBytes ELSE entries[i - 1].signature)

\* C14: the entries of one run, as get_entries(run_id) and export_bundle(run_id)
\* return them, form a self-contained chain.
C14_RunChainSelfContained ==
    \A run_id \in RunIds :
        /\ SelfContained(get_entries(ledger, run_id))
        /\ SelfContained(export_bundle(ledger, run_id, Clock(ledger.entries)).entries)

\* every thread has returned from its last append
AllJoined == \A t \in Threads : threads[t].pc = "idle" /\ threads[t].done = AppendsPerThread

\* C15: after parallel appends, each thread for its own run, no append is
\* lost, no two entries share a sequence number or a prev_signature, each run
\* has as many entries as it appended, and the chain verifies.
C15_ConcurrentAppendsKeepChain ==
    AllJoined =>
        /\ Len(ledger.entries) = Cardinality(Threads) * AppendsPerThread
        /\ \A t \in Threads : Len(get_entries(ledger, RunOf[t])) = AppendsPerThread
        /\ \A i, j \in 1..Len(ledger.entries) :
              i # j => /\ ledger.entries[i].sequence # ledger.entries[j].sequence
                       /\ ledger.entries[i].prev_signature # ledger.entries[j].prev_signature
        /\ verify_chain(ledger)

\* C16: across append, verify_chain, get_entries and export_bundle calls the
\* number of entries never decreases and the entry stored at index i keeps
\* its sequence, data, prev_signature and signature.
C16_LedgerAppendOnly ==
    [][/\ Len(ledger'.entries) >= Len(ledger.entries)
       /\ \A i \in 1..Len(ledger.entries) :
             /\ ledger'.entries[i].sequence = ledger.entries[i].sequence
             /\ ledger'.entries[i].data = ledger.entries[i].data
             /\ ledger'.entries[i].prev_signature = ledger.entries[i].prev_signature
             /\ ledger'.entries[i].signature = ledger.entries[i].signature]_vars

\* three entries of two runs are stored, the last append was a call with a
\* recorded id and other data, and the bundle of one run was exported since
C16_Witness ==
    /\ Len(ledger.entries) = 3
    /\ Truthy(Get(lastAppend.data, "id", None))
    /\ lastAppend.ret.data # lastAppend.data
    /\ query.op = "export_bundle"
    /\ query.ret.entry_count = 2

\* C17: export_bundle(run_id) returns the ledger entries with that run_id in
\* append order, their number as entry_count, a bundle_signature and a
\* bundle_hash.
C17_BundleHasEntriesSignatureAndHash ==
    [][(/\ query'.op = "export_bundle"
        /\ (query.op # "export_bundle" \/ query'.ret # query.ret)) =>
          /\ query'.ret.entries =
                SelectSeq(ledger.entries, LAMBDA e : e.run_id = query'.run_id)
          /\ query'.ret.entry_count = Len(query'.ret.entries)
          /\ "bundle_signature" \in DOMAIN query'.ret
          /\ "bundle_hash" \in DOMAIN query'.ret]_vars

\* the entries get_accessible_events returned, as a set
Accessible == {lock.accessible[k] : k \in 1..Len(lock.accessible)}

EngineObservable ==
    LET events == get_observable_events(
                      InformationContext(engine.current_time, engine.timelock,
                                         engine.encrypted_events))
    IN  {events[k] : k \in 1..Len(events)}

\* C19: an event with timestamp T that was encrypted at t0 < T is returned in
\* plaintext by get_accessible_events at every current_time >= T, and is
\* among the engine's observable events once the engine's current_time >= T.
C19_EventReleasedWhenTimeReachesIt ==
    /\ lock.op = "events" =>
          \A i \in 1..Len(lock.events) :
              (lock.t0 < lock.events[i].timestamp /\ lock.t >= lock.events[i].timestamp) =>
                  \E x \in Accessible : Without(x, "encrypted") = lock.events[i]
    /\ \A i \in 1..Len(engine.timeline.events) :
          LET event == engine.timeline.events[i]
          IN  (engine.timeline.start_date < event.timestamp
               /\ engine.current_time >= event.timestamp) =>
                  \E x \in EngineObservable : Without(x, "encrypted") = event

\* C20: the signal lookup for a parent event of the time-locked timeline
\* returns every signal of the event with release_time <= current_time, also
\* while the event is unreleased, and never one with release_time >
\* current_time.
C20_StagedSignalRelease ==
    lock.op = "signals" =>
        LET signals == lock.events[lock.parent].signals
            Returned == {lock.signals[j] : j \in 1..Len(lock.signals)}
        IN  \A k \in 1..Len(signals) :
                /\ signals[k].release_time <= lock.t => signals[k] \in Returned
                /\ signals[k].release_time > lock.t => signals[k] \notin Returned

\* at some depth a field named timestamp, time or date carries a date later
\* than t
RECURSIVE FutureField(_, _)
FutureField(obj, t) ==
    IF obj.kind = "dict"
    THEN \E key \in DOMAIN obj.val :
            \/ /\ key \in TimeKeys
               /\ obj.val[key].kind \in {"iso", "datetime"}
               /\ obj.val[key].val > t
            \/ FutureField(obj.val[key], t)
    ELSE IF obj.kind = "list"
    THEN \E i \in 1..Len(obj.val) : FutureField(obj.val[i], t)
    ELSE FALSE

\* at some depth a field named timestamp, time or date carries a str that is
\* not a date in ISO format
RECURSIVE UnreadableField(_)
UnreadableField(obj) ==
    IF obj.kind = "dict"
    THEN \E key \in DOMAIN obj.val :
            \/ key \in TimeKeys /\ obj.val[key].kind = "str"
            \/ UnreadableField(obj.val[key])
    ELSE IF obj.kind = "list"
    THEN \E i \in 1..Len(obj.val) : UnreadableField(obj.val[i])
    ELSE FALSE

C22_ContextHasNoFutureTimestamp ==
    lock.op = "context" =>
        /\ lock.ok
        /\ \A i \in 1..Len(lock.input.val.all_events.val) :
              lock.input.val.all_events.val[i].val.timestamp.val <= lock.t

\* the hard constraints the evaluated action violates under the evaluated
\* state and policies
HardViolations ==
    LET a == policy.action
        p == policy.policies
        st == policy.state
        alloc == IF "allocation" \in DOMAIN a.params THEN a.params.allocation ELSE <<>>
        new == IF "pricing" \in DOMAIN a.params THEN a.params.pricing ELSE <<>>
        old == st.pricing
        maxc == IF "max_percent_change" \in DOMAIN p
                THEN p.max_percent_change.pricing ELSE 20
        maxv == IF "constraints" \in DOMAIN p
                THEN p.constraints.hiring_velocity_max ELSE 10
    IN  {<<"spend_limit", SumValues(alloc), p.spend_limit_monthly>> : x \in
            {y \in {1} : /\ a.type = "allocate_budget"
                         /\ "spend_limit_monthly" \in DOMAIN p
                         /\ SumValues(alloc) > p.spend_limit_monthly}}
        \cup
        {<<"pricing_change", prod>> : prod \in
            {q \in DOMAIN new : /\ a.type = "change_pricing"
                                /\ q \in DOMAIN old
                                /\ old[q] > 0
                                /\ \/ (new[q] - old[q]) * 100 > maxc * old[q]
                                   \/ (old[q] - new[q]) * 100 > maxc * old[q]}}
        \cup
        {<<"hiring_velocity", Abs(a.params.delta), maxv>> : x \in
            {y \in {1} : a.type = "adjust_hiring" /\ Abs(a.params.delta) > maxv}}

NeedsEscalation ==
    LET a == policy.action
        p == policy.policies
        impact == IF "estimated_impact" \in DOMAIN a THEN a.estimated_impact ELSE 0
        risk == IF "risk_score" \in DOMAIN a THEN a.risk_score ELSE 0
        threshold == IF "approval_threshold" \in DOMAIN p THEN p.approval_threshold
                     ELSE 100000
        appetite == IF "risk_appetite" \in DOMAIN p THEN p.risk_appetite ELSE 50
    IN  impact > threshold \/ risk > appetite

\* C23: evaluate_action returns DENY with violated_rules listing every
\* violated hard constraint (spend limit, pricing change, hiring velocity)
\* when there is one, even if estimated_impact or risk_score exceed their
\* thresholds; otherwise ESCALATE iff estimated_impact > approval_threshold
\* or risk_score > risk_appetite; otherwise APPROVE.
C23_DenyThenEscalateThenApprove ==
    policy.op = "evaluate" =>
        LET rules == policy.result.violated_rules
        IN  IF HardViolations # {}
            THEN /\ policy.result.decision = "deny"
                 /\ {rules[i] : i \in 1..Len(rules)} = HardViolations
                 /\ Len(rules) = Cardinality(HardViolations)
            ELSE /\ rules = <<>>
                 /\ policy.result.decision =
                        IF NeedsEscalation THEN "escalate" ELSE "approve"

\* an action over the spend limit whose estimated_impact is over the approval
\* threshold is denied
C23_Witness ==
    /\ policy.op = "evaluate"
    /\ policy.action.type = "allocate_budget"
    /\ HardViolations # {} /\ NeedsEscalation
    /\ policy.result.decision = "deny"

\* a price change with two products over the limit lists both
C23_WitnessTwoRules ==
    /\ policy.op = "evaluate"
    /\ Cardinality(HardViolations) = 2
    /\ Len(policy.result.violated_rules) = 2

\* C24: check_invariants on the engine's state (its to_dict serialization)
\* returns exactly the violated invariants: cash_negative iff cash < 0,
\* runway_too_low iff cash / costs_monthly < min_runway_months (never when
\* costs_monthly <= 0), service_level_below_sla iff service_level is below
\* the SLA minimum.
C24_ExactlyTheViolatedInvariants ==
    policy.op = "invariants" =>
        LET st == engine.state
            p == policy.policies
            min_runway == IF "min_runway_months" \in DOMAIN p
                          THEN p.min_runway_months ELSE 3
            sla == IF "constraints" \in DOMAIN p THEN p.constraints.sla_targets.min ELSE 95
            names == {policy.violations[i][1] : i \in 1..Len(policy.violations)}
        IN  /\ "cash_negative" \in names <=> st.cash < 0
            /\ "runway_too_low" \in names <=>
                  (st.costs_monthly > 0 /\ st.cash < min_runway * st.costs_monthly)
            /\ "service_level_below_sla" \in names <=> st.service_level < sla

\* the step is a tick that advanced the engine
TickStep == lastOp'.op = "tick" /\ lastOp'.ret = TRUE /\ engine' # engine

\* C25: every timeline event whose timestamp a tick crosses (previous
\* current_time < timestamp <= new current_time) is, after that tick, in
\* active_events and in event_history, and its cost_multiplier has been
\* applied to costs_monthly once.
C25_CrossedEventIsActivated ==
    [][TickStep =>
        \A i \in 1..Len(engine.timeline.events) :
            LET event == engine.timeline.events[i]
            IN  (engine.current_time < event.timestamp
                    /\ event.timestamp <= engine'.current_time) =>
                /\ \E j \in 1..Len(engine'.active_events) :
                      engine'.active_events[j].timestamp = event.timestamp
                /\ \E j \in 1..Len(engine'.event_history) :
                      /\ engine'.event_history[j].timestamp = event.timestamp
                      /\ engine'.event_history[j].tick = engine'.current_tick
                /\ "cost_multiplier" \in DOMAIN event.parameter_impacts =>
                      engine'.state.costs_monthly =
                          (engine.state.costs_monthly
                              * event.parameter_impacts.cost_multiplier) \div 100]_vars

\* the step is a call of tick
TickCall == lastOp'.op = "tick" /\ (lastOp'.ret # lastOp.ret \/ lastOp.op # "tick"
                                     \/ engine' # engine)

\* C26: tick returns false and changes nothing (state, current_time,
\* current_tick, histories) exactly when current_time >= end_time; otherwise
\* it returns true, adds 1 to current_tick and tick_days to current_time, and
\* commits a new state whose timestamp is the new current_time.
C26_TickRefusesAtEndElseAdvances ==
    [][TickCall =>
        IF engine.current_time >= engine.end_time
        THEN lastOp'.ret = FALSE /\ engine' = engine
        ELSE /\ lastOp'.ret = TRUE
             /\ engine'.current_tick = engine.current_tick + 1
             /\ engine'.current_time = engine.current_time + engine.tick_days
             /\ engine'.state.timestamp = engine'.current_time
             /\ engine'.state # engine.state
             /\ Len(engine'.state_history) > Len(engine.state_history)
             /\ engine'.state_history[Len(engine'.state_history)] = engine'.state
             /\ \A i \in 1..Len(engine.state_history) :
                   engine'.state_history[i] = engine.state_history[i]]_vars

\* tick was refused at current_time = end_time, after ticks that advanced
C26_Witness ==
    /\ lastOp.op = "tick" /\ lastOp.ret = FALSE
    /\ engine.current_time = engine.end_time
    /\ engine.current_tick > 0
    /\ engine.state.timestamp = engine.current_time

\* the step gates one action of the cycle
GateStep == call'.op = "gate" /\ orch.pc = "gating" /\ orch'.next = orch.next + 1

\* the gated action, the decision of the policy engine on it, and the result
\* the cycle recorded for it
Gated == call'.action
Decision ==
    evaluate_action(orch.policies, Gated, to_dict(engine.state),
                    Get(Gated, "agent_role", None)).decision
GateResult == orch'.results[Len(orch'.results)]
Applying ==
    apply_action(engine, Gated, Get(Gated, "agent_role", None), Clock(engine.transitions))

\* the action comes from a registered agent that holds the permission for its
\* type
Permitted ==
    /\ "agent_role" \in DOMAIN Gated
    /\ \E i \in 1..Len(orch.agents) :
          /\ orch.agents[i].role = Gated.agent_role
          /\ Gated.type \in orch.agents[i].permissions

\* the handling of a gated action by the decision of the policy engine
HandledByDecision ==
    /\ Len(orch'.results) = Len(orch.results) + 1
    /\ GateResult.action = Gated
    /\ call'.policy.decision = Decision
    /\ Decision = "deny" =>
          /\ engine' = engine
          /\ orch'.pending_approvals = orch.pending_approvals
          /\ GateResult.status = "denied"
          /\ GateResult.reason = call'.policy.reason
          /\ GateResult.reason[1] = "Policy violations"
    /\ Decision = "escalate" =>
          /\ engine' = engine
          /\ Len(orch'.pending_approvals) = Len(orch.pending_approvals) + 1
          /\ SubSeq(orch'.pending_approvals, 1, Len(orch.pending_approvals))
                = orch.pending_approvals
          /\ orch'.pending_approvals[Len(orch'.pending_approvals)].action = Gated
          /\ GateResult.status = "pending_approval"
    /\ Decision = "approve" =>
          /\ engine' = Applying.eng
          /\ orch'.pending_approvals = orch.pending_approvals
          /\ GateResult.status = IF Applying.ret THEN "executed" ELSE "failed"
    /\ engine' # engine => Decision = "approve"

InfluencesOf(actions) == SelectSeq(actions, LAMBDA a : a.type = "market_influence")
ActionsOf(actions, role) ==
    SelectSeq(actions, LAMBDA a : "agent_role" \in DOMAIN a /\ a.agent_role = role)
StableOrder(actions) ==
    LET c[i \in 0..Len(orch.agents)] ==
            IF i = 0 THEN InfluencesOf(actions)
            ELSE IF orch.agents[i].role = "population" THEN c[i - 1]
            ELSE c[i - 1] \o ActionsOf(actions, orch.agents[i].role)
    IN  c[Len(orch.agents)]

\* C28: within one decision cycle the actions are gated one at a time in a
\* fixed order (population influences first, then the agents in role
\* insertion order, each agent's actions in its list order, whatever the
\* order in which the agents finish) and the result list has one result per
\* collected action in that order.
C28_GatedInStableOrder ==
    /\ [](orch.pc = "gating" =>
            /\ orch.all_actions = StableOrder(orch.all_actions)
            /\ \A role \in DOMAIN orch.decided :
                  ActionsOf(orch.all_actions, role) = orch.decided[role]
            /\ Len(orch.results) = orch.next - 1
            /\ \A k \in 1..Len(orch.results) :
                  orch.results[k].action = orch.all_actions[k])
    /\ [][GateStep =>
            /\ call'.action = orch.all_actions[Len(orch.results) + 1]
            /\ orch'.all_actions = orch.all_actions
            /\ SubSeq(orch'.results, 1, Len(orch.results)) = orch.results]_vars

\* a cycle is through its gating with the result list complete, the later
\* agent having finished first
C28_Witness ==
    /\ orch.pc = "gating" /\ orch.next > Len(orch.all_actions)
    /\ Len(orch.results) = 3
    /\ orch.finished = <<"cfo", "ceo">>
    /\ orch.results[1].action.type = "market_influence"
    /\ orch.results[2].action.agent_role = "ceo"
    /\ orch.results[3].action.agent_role = "cfo"

\* C29: every decision taken in a decision cycle or by approve_action results
\* in an audit-ledger entry for the run, and every state transition the
\* engine commits has a ledger entry, in the order the actions were gated.
C29_DecisionsAndTransitionsAudited ==
    /\ [][(GateStep \/ Len(engine'.transitions) > Len(engine.transitions)) =>
            /\ Len(ledger'.entries) > Len(ledger.entries)
            /\ SubSeq(ledger'.entries, 1, Len(ledger.entries)) = ledger.entries]_vars
    /\ [](Len(ledger.entries) >= Len(engine.transitions))

\* the step is a call of approve_action: of the steps of the orchestrator
\* only a tick leaves the record of its last call alone
ApproveStep ==
    call'.op = "approve" /\ ~(lastOp'.op = "tick" /\ orch' = orch /\ call' = call)

\* the places of the queue that hold the approved id, and the first of them
Matching ==
    {i \in 1..Len(orch.pending_approvals) :
        orch.pending_approvals[i].action.id = call'.action_id}
First == CHOOSE i \in Matching : \A j \in Matching : i <= j
Approving ==
    apply_action(engine, orch.pending_approvals[First].action,
                 orch.pending_approvals[First].action.agent_role,
                 Clock(engine.transitions))

\* C30: approve_action(action_id, approved_by) re-runs engine.apply_action for
\* the queued entry with that id; when that succeeds the entry is removed and
\* true is returned, when it fails the entry stays queued and false is
\* returned; with no matching entry false is returned and neither the queue
\* nor the engine changes.  Entries with other ids are never removed.
C30_ApproveRemovesOnlyOnSuccess ==
    [][ApproveStep =>
        /\ IF Matching = {}
           THEN /\ call'.ret = FALSE
                /\ orch'.pending_approvals = orch.pending_approvals
                /\ engine' = engine
           ELSE /\ engine' = Approving.eng
                /\ call'.ret = Approving.ret
                /\ Approving.ret =>
                      orch'.pending_approvals =
                          SubSeq(orch.pending_approvals, 1, First - 1)
                              \o SubSeq(orch.pending_approvals, First + 1,
                                        Len(orch.pending_approvals))
                /\ ~Approving.ret =>
                      /\ orch'.pending_approvals = orch.pending_approvals
                      /\ engine' = engine
        /\ \A i \in 1..Len(orch.pending_approvals) :
              orch.pending_approvals[i].action.id # call'.action_id =>
                  \E j \in 1..Len(orch'.pending_approvals) :
                      orch'.pending_approvals[j] = orch.pending_approvals[i]]_vars

\* an approval failed and left its entry queued beside another one
C30_Witness ==
    /\ call.op = "approve" /\ ~call.ret
    /\ Len(orch.pending_approvals) = 2
    /\ \E i \in 1..2 : orch.pending_approvals[i].action.id = call.action_id
    /\ engine.state.cash < 0

\* an approval succeeded: its entry left the queue, the other one stayed
C30_WitnessApproved ==
    /\ call.op = "approve" /\ call.ret
    /\ Len(orch.pending_approvals) = 1
    /\ orch.pending_approvals[1].action.id # call.action_id
    /\ \E i \in 1..Len(engine.transitions) :
          engine.transitions[i].action.id = call.action_id

\* C31: an agent that fails during a decision cycle is treated as having
\* proposed no actions and the cycle still completes: when an agent's task
\* has failed the cycle is still under way, towards gating the actions of
\* the other agents and returning a result list.
C31_FailedAgentCountsAsEmpty ==
    [][orch'.failed # {} /\ orch.failed = {} =>
          /\ orch'.pc \in {"agents", "gating"}
          /\ orch'.all_actions = orch.all_actions
          /\ \A role \in DOMAIN orch.decided :
                role \in DOMAIN orch'.decided /\ orch'.decided[role] = orch.decided[role]]_vars

\* C32: constructing an engine from an invalid input (end_date earlier than
\* start_date, an event with severity outside [0,1] or duration_days <= 0)
\* fails: no engine on which tick or apply_action can be called is built
\* from such an input.
C32_NoEngineFromInvalidInput ==
    /\ ~(engine.timeline.end_date < engine.timeline.start_date)
    /\ validate_timeline(engine.timeline.events)

\* the fields of the state an action of the type may change, besides version
\* and timestamp
Touched(action_type) ==
    CASE action_type = "adjust_hiring" -> {"headcount", "costs_monthly"}
      [] action_type = "change_pricing" -> {"pricing"}
      [] action_type = "allocate_budget" -> {"cash"}
      [] action_type = "modify_inventory_policy" -> {"inventory"}
      [] action_type = "trigger_cost_cutting" -> {"costs_monthly"}
      [] OTHER -> {}

\* a step of apply_action that commits a transition
CommitStep ==
    /\ lastOp'.op = "apply_action"
    /\ Len(engine'.transitions) = Len(engine.transitions) + 1

\* the effect the table of action types gives for the action
SpecifiedEffect(s, action, t) ==
    LET p == Get(action, "params", <<>>)
    IN  CASE action.type = "adjust_hiring" ->
               /\ t.headcount = (IF s.headcount + p.delta > 0 THEN s.headcount + p.delta ELSE 0)
               /\ t.costs_monthly =
                     s.costs_monthly + p.delta * Get(p, "cost_per_head", 10000)
          [] action.type = "change_pricing" ->
               /\ DOMAIN t.pricing = DOMAIN s.pricing \cup DOMAIN p.pricing
               /\ \A k \in DOMAIN t.pricing :
                     t.pricing[k] = IF k \in DOMAIN p.pricing THEN p.pricing[k]
                                    ELSE s.pricing[k]
          [] action.type = "modify_inventory_policy" ->
               /\ DOMAIN t.inventory = DOMAIN s.inventory \cup DOMAIN p.inventory
               /\ \A k \in DOMAIN t.inventory :
                     t.inventory[k] = IF k \in DOMAIN p.inventory THEN p.inventory[k]
                                      ELSE s.inventory[k]
          [] action.type = "allocate_budget" ->
               LET total == SumValues(p.allocation)
               IN  t.cash = IF total <= s.cash THEN s.cash - total ELSE s.cash
          [] action.type = "trigger_cost_cutting" ->
               t.costs_monthly * 100 =
                   s.costs_monthly * (100 - Get(p, "reduction_percent", 10))
          [] OTHER -> TRUE

\* C33: for each of the five action types a committed apply_action produces
\* exactly the specified effect and changes no other field than version and
\* timestamp: adjust_hiring sets headcount to max(0, headcount + delta) and
\* adds delta*cost_per_head to costs_monthly; change_pricing and
\* modify_inventory_policy overlay the given keys; allocate_budget subtracts
\* the allocation total from cash if the total <= cash and otherwise leaves
\* cash unchanged; trigger_cost_cutting multiplies costs_monthly by
\* (1 - reduction_percent).
C33_CommittedActionHasSpecifiedEffect ==
    [][CommitStep =>
          /\ SpecifiedEffect(engine.state, lastOp'.action, engine'.state)
          /\ engine'.state.version = engine.state.version + 1
          /\ engine'.state.timestamp = engine.current_time
          /\ \A f \in DOMAIN engine.state \ ({"version", "timestamp"}
                                               \cup Touched(lastOp'.action.type)) :
                engine'.state[f] = engine.state[f]]_vars

\* two transitions are committed, the second by a hiring cut larger than the
\* headcount; and one by an allocation larger than the cash
C33_Witness ==
    /\ Len(engine.transitions) = 2
    /\ engine.transitions[2].action.type = "adjust_hiring"
    /\ engine.transitions[2].action.params.delta + engine.transitions[2].before.headcount < 0
    /\ engine.transitions[1].action.type \in
          {"change_pricing", "modify_inventory_policy", "trigger_cost_cutting"}

C33_WitnessOverdraft ==
    /\ Len(engine.transitions) = 1
    /\ engine.transitions[1].action.type = "allocate_budget"
    /\ SumValues(engine.transitions[1].action.params.allocation)
          > engine.transitions[1].before.cash
    /\ engine.state.cash = engine.transitions[1].before.cash

\* the last call was a tick that returned false
TickRefused == lastOp.op = "tick" /\ ~lastOp.ret

\* C34: a run terminates: with tick called again and again, apply_action
\* calls interleaved and no restore_checkpoint, a tick eventually returns
\* false, and from then on every tick returns false.
C34_RunTerminates ==
    /\ <>TickRefused
    /\ [](TickRefused => [](lastOp.op = "tick" => ~lastOp.ret))

\* a tick has returned false on an engine that committed an action
C34_Witness ==
    /\ TickRefused
    /\ engine.current_tick > 0
    /\ Len(engine.transitions) > 0

\* C35: no action that violates a hard constraint with respect to the engine
\* state at the moment it is applied is ever applied to the engine, whether
\* inside a decision cycle or later through approve_action after the state
\* has changed since the action was escalated: every transition of the log
\* carries an action without a violation against its before-state.
C35_NoHardViolationApplied ==
    \A i \in 1..Len(engine.transitions) :
        Violated(orch.policies, engine.transitions[i].action,
                 to_dict(engine.transitions[i].before)) = <<>>

\* C36: after restore_checkpoint(name) succeeds the engine keeps nothing that
\* was committed after the checkpoint was taken: the current state is the
\* last element of state_history and every transition left in the log has an
\* after-state whose version is <= the restored state's version, so that an
\* action applied after the checkpoint is applied again when it is
\* re-submitted with the same id.
C36_RestoreKeepsNothingLater ==
    lastOp.op = "restore_checkpoint" /\ lastOp.ret =>
        /\ engine.state = engine.state_history[Len(engine.state_history)]
        /\ \A i \in 1..Len(engine.transitions) :
              engine.transitions[i].after.version <= engine.state.version

\* what the holder of a context can read of entry i of all_events: the event
\* itself when it is not encrypted or when the context carries the timelock
\* whose key encrypted it
Learns(ctx, i) ==
    LET entry == ctx.all_events[i]
    IN  \/ ~entry.encrypted
        \/ /\ "timelock" \in DOMAIN ctx
           /\ ctx.timelock.encryption_key = entry.data.key

\* C37: the information context handed to agents gives them no means to
\* learn the content of an event with timestamp > current_time: it holds
\* neither the plaintext of such an event nor the time-lock key (or an object
\* holding it) together with the ciphertext.
C37_ContextKeepsFutureEventsSealed ==
    LET ctx == get_information_context(engine)
    IN  \A i \in 1..Len(ctx.all_events) :
            ctx.all_events[i].timestamp > engine.current_time => ~Learns(ctx, i)

\* C38: the simulation never runs past the configured span: in every
\* reachable engine state current_time <= end_time, also for a span that is
\* not a multiple of tick_days.
C38_NeverPastTheSpan == engine.current_time <= engine.end_time

\* C40: in every reachable engine state costs_monthly >= 0: from a
\* non-negative monthly_burn no sequence of committed actions and ticks makes
\* costs_monthly negative.
C40_CostsNeverNegative ==
    /\ engine.state.costs_monthly >= 0
    /\ \A i \in 1..Len(engine.state_history) : engine.state_history[i].costs_monthly >= 0

\* the engine simulate_forward is described as running: the live engine set
\* to the checkpoint state, with a log that holds nothing yet
FreshAt(checkpoint_state) ==
    [engine EXCEPT !.state = checkpoint_state, !.transitions = <<>>]

\* C39: simulate_forward(action, checkpoint_state, ticks) returns the metrics
\* of the state reached by applying the action to checkpoint_state and then
\* ticking up to ticks times, for every action including one whose id is
\* already in the live engine's transition log, and it leaves the live
\* engine's state, current_time, current_tick, state_history and transitions
\* unchanged.
C39_SimulateForwardAppliesTheAction ==
    [][outcome' # outcome =>
          LET applied == apply_action(FreshAt(outcome'.checkpoint_state), outcome'.action,
                                      None, Clock(engine.transitions)).eng
          IN  /\ outcome'.metrics = get_metrics(TickTimes(applied, outcome'.ticks))
              /\ engine' = engine]_vars

====
